---- MODULE Spec2Model ----
(***************************************************************************)
(* Teaser analysis backend: the HTTP handlers of main.py, the background   *)
(* tasks they schedule, Pipeline.process (pipeline/base.py) and the        *)
(* lifecycle controller _run_pipeline_steps of the two pipeline classes.   *)
(*                                                                         *)
(* Scheduling.  The server runs one asyncio event loop.  `running` is the  *)
(* background task that currently holds the loop (0: the loop is free).    *)
(* A request handler runs when the loop is free and runs to completion     *)
(* (the handlers touch the database between no two awaits).  A background  *)
(* task holds the loop from the moment it is resumed until it suspends or  *)
(* returns.  The one await that suspends is the HTTP request to the LLM:   *)
(* text extraction and report rendering are coroutines that never yield.   *)
(*                                                                         *)
(* Persistence.  `teasers` is the committed content of the teasers table;  *)
(* an attribute assignment followed by db.commit() is a write of that      *)
(* attribute, last commit wins.                                            *)
(***************************************************************************)
EXTENDS Integers, Sequences, FiniteSets, TLC

(* ----------------------------- bounds --------------------------------- *)
\* number of rows the teasers table can hold (ids 1..MaxTeasers)
MaxTeasers == 2
\* number of background tasks / controller runs the server is given in all
MaxTasks == 2

(* --------------------------- program values --------------------------- *)
\* Python None for a nullable column or local
None == "None"
\* models.TeaserStatus
PENDING == "pending"
PROCESSING == "processing"
COMPLETED == "completed"
ERROR == "error"
TeaserStatus == {PENDING, PROCESSING, COMPLETED, ERROR}

\* report_path is NULL (0) or the path of the report rendered for teaser i (i)
NoPath == 0

\* file names split at the extension, so that endswith(".pdf") is decided
\* by the extension
PdfFiles == {[stem |-> "a", ext |-> ".pdf"], [stem |-> "b", ext |-> ".pdf"]}
OtherFiles == {[stem |-> "notes", ext |-> ".txt"]}
NoFile == [stem |-> "", ext |-> ""]
endswith_pdf(f) == f.ext = ".pdf"

\* what text extraction can return: the stripped text, possibly empty
ExtractedTexts == {"", "text"}

\* building-block ids of the registry that the model carries, and an id that
\* is not in the registry
Blocks == {"teaser_summary", "risk"}
AllBlocks == <<"teaser_summary", "risk">>
UnknownBlock == "no_such_block"
\* the block selections a process request can carry
Selections ==
    {<< >>, <<"teaser_summary", UnknownBlock>>, <<"risk", "teaser_summary">>,
     <<UnknownBlock>>}

TeaserIds == 1..MaxTeasers
TaskIds == 1..MaxTasks

VARIABLES
    teasers,    \* the teasers table: id -> row (present = FALSE: no such row)
    next_id,    \* next autoincrement primary key
    tasks,      \* background tasks and controller runs
    running,    \* the task holding the event loop, 0 when the loop is free
    response,   \* the last HTTP response: the operation and its status code
    api_key,    \* whether OPENAI_API_KEY is set in the environment
    pipeline,   \* the pipeline class the deployment instantiates
    cancelled   \* history: the runs that were in flight when a cancel
                \* request for their teaser was accepted

vars == <<teasers, next_id, tasks, running, response, api_key, pipeline, cancelled>>
env == <<api_key, pipeline>>

(* ------------------------------ rows ---------------------------------- *)
\* gpt_analysis is carried as the value at each block's taxonomy leaf:
\*   "None"    the column is NULL
\*   "{}"      the leaf of the initial skeleton, not populated
\*   "absent"  the mapping has no such key
\*   ""        an empty string,   "1", "2", ...  the text written for run k
NoAnalysis == [b \in Blocks |-> None]
Skeleton == [b \in Blocks |-> "{}"]
\* the leaf of a block is out of reach: the key above it on the block's
\* taxonomy path holds a string where a mapping is expected
Shadowed == "<str>"

NoRow ==
    [present |-> FALSE, filename |-> NoFile, extracted_text |-> None,
     entities |-> None, gpt_analysis |-> NoAnalysis, status |-> PENDING,
     report_path |-> NoPath]

\* models.Teaser(filename=..., status=...): the other columns are NULL
NewTeaser(f, st) ==
    [present |-> TRUE, filename |-> f, extracted_text |-> None,
     entities |-> None, gpt_analysis |-> NoAnalysis, status |-> st,
     report_path |-> NoPath]

\* db.query(Teaser).filter(Teaser.id == key).first() for an integer key
Found(db, id) == id \in DOMAIN db /\ db[id].present

\* db.query(Teaser).filter(Teaser.filename == f).order_by(Teaser.id.desc()).first()
\* 0 when there is no such row
LatestByFilename(db, f) ==
    LET S == {i \in DOMAIN db : db[i].present /\ db[i].filename = f}
    IN IF S = {} THEN 0 ELSE CHOOSE i \in S : \A j \in S : j <= i

(* ------------------------------ tasks --------------------------------- *)
\* a value passed as the teaser_id parameter: an integer primary key or a
\* Teaser object (the ORM instance of row id)
IntArg(i) == [type |-> "int", id |-> i]
TeaserObj(i) == [type |-> "Teaser", id |-> i]

\* kind: which coroutine the task runs; pc: where it stands; filename,
\* teaser_id, nargs, selected: the arguments it was scheduled with; arg: the
\* value bound to _run_pipeline_steps' teaser_id; text, result, ret: locals and
\* return values; raised: the exception that ended it; origin (history): the
\* row created by the upload that scheduled it
\* valid, batch, idx, analysis, dirty, report: the controller's locals
\* valid_blocks, batch_results, the merge loop's position, the loaded
\* teaser.gpt_analysis with its mark of an assignment not yet committed, and
\* report_path;
\* stages (history): the stages the run has executed
NoTask ==
    [kind |-> "none", pc |-> "none", filename |-> NoFile, teaser_id |-> 0,
     nargs |-> 0, selected |-> << >>, arg |-> IntArg(0), text |-> None,
     result |-> None, ret |-> None, raised |-> None, origin |-> 0,
     valid |-> << >>, batch |-> [b \in Blocks |-> "absent"], idx |-> 0,
     analysis |-> NoAnalysis, dirty |-> FALSE, report |-> NoPath,
     stages |-> {}, nreq |-> 0, outcome |-> None, full_response |-> << >>,
     results |-> None, max_tokens |-> 0, nrender |-> 0]

\* a task that has ended keeps nothing but the fact that it ended
Exited == [NoTask EXCEPT !.kind = "exited"]
Live(k) == tasks[k].kind \notin {"none", "exited"}

FreeSlots == {k \in TaskIds : tasks[k].kind = "none"}
\* background_tasks.add_task: the task waits until the response is sent
add_task(t) ==
    LET k == CHOOSE f \in FreeSlots : \A g \in FreeSlots : f <= g
    IN [tasks EXCEPT ![k] = t]

\* the teaser a task is a run of: the id it processes once it has one, until
\* then the row its upload created
RunTarget(task) == IF task.teaser_id # 0 THEN task.teaser_id ELSE task.origin

\* the runs that are scheduled or running for teaser id t
InFlight(t) ==
    {k \in TaskIds : Live(k) /\ RunTarget(tasks[k]) = t}

(* ======================= main.py: request handlers ==================== *)
Respond(op, code) == response' = [op |-> op, code |-> code]

\* variant of upload_teaser: the row is created with the column default
upload_teaser_pending(f) ==
    /\ running = 0
    /\ IF ~endswith_pdf(f)
       THEN /\ Respond("upload", 400)
            /\ UNCHANGED <<teasers, next_id, tasks, running, env, cancelled>>
       ELSE /\ next_id <= MaxTeasers
            /\ FreeSlots # {}
            /\ teasers' = [teasers EXCEPT ![next_id] = NewTeaser(f, PENDING)]
            /\ next_id' = next_id + 1
            /\ tasks' = add_task([NoTask EXCEPT !.kind = "process_pdf",
                                                !.pc = "scheduled",
                                                !.filename = f,
                                                !.origin = next_id])
            /\ Respond("upload", 200)
            /\ UNCHANGED <<running, env, cancelled>>

\* POST /upload  (main.py 71-99)
upload_teaser(f) ==
    /\ running = 0
    /\ IF ~endswith_pdf(f)
       THEN /\ Respond("upload", 400)
            /\ UNCHANGED <<teasers, next_id, tasks, running, env, cancelled>>
       ELSE /\ next_id <= MaxTeasers
            /\ FreeSlots # {}
            /\ teasers' = [teasers EXCEPT ![next_id] = NewTeaser(f, PROCESSING)]
            /\ next_id' = next_id + 1
            /\ tasks' = add_task([NoTask EXCEPT !.kind = "process_pdf",
                                                !.pc = "scheduled",
                                                !.filename = f,
                                                !.origin = next_id])
            /\ Respond("upload", 200)
            /\ UNCHANGED <<running, env, cancelled>>

\* variant of process_teaser: an unknown id is answered like a known one
process_teaser_unknown_ok(teaser_id, building_blocks) ==
    /\ running = 0
    /\ IF Found(teasers, teaser_id) /\ teasers[teaser_id].status = PROCESSING
       THEN /\ Respond("process", 200)
            /\ UNCHANGED <<teasers, tasks>>
       ELSE /\ FreeSlots # {}
            /\ teasers' = [teasers EXCEPT ![teaser_id].status = PROCESSING]
            /\ tasks' = add_task([NoTask EXCEPT !.kind = "process",
                                                !.pc = "scheduled",
                                                !.teaser_id = teaser_id,
                                                !.nargs = 2,
                                                !.selected = building_blocks])
            /\ Respond("process", 200)
    /\ UNCHANGED <<next_id, running, env, cancelled>>

\* variant of process_teaser: no check of the PROCESSING status
process_teaser_unchecked(teaser_id, building_blocks) ==
    /\ running = 0
    /\ IF ~Found(teasers, teaser_id)
       THEN /\ Respond("process", 404)
            /\ UNCHANGED <<teasers, tasks>>
       ELSE /\ FreeSlots # {}
            /\ teasers' = [teasers EXCEPT ![teaser_id].status = PROCESSING]
            /\ tasks' = add_task([NoTask EXCEPT !.kind = "process",
                                                !.pc = "scheduled",
                                                !.teaser_id = teaser_id,
                                                !.nargs = 2,
                                                !.selected = building_blocks])
            /\ Respond("process", 200)
    /\ UNCHANGED <<next_id, running, env, cancelled>>

\* POST /teasers/{teaser_id}/process  (main.py 160-187)
process_teaser(teaser_id, building_blocks) ==
    /\ running = 0
    /\ IF ~Found(teasers, teaser_id)
       THEN /\ Respond("process", 404)
            /\ UNCHANGED <<teasers, tasks>>
       ELSE IF teasers[teaser_id].status = PROCESSING
       THEN /\ Respond("process", 200)
            /\ UNCHANGED <<teasers, tasks>>
       ELSE /\ FreeSlots # {}
            /\ teasers' = [teasers EXCEPT ![teaser_id].status = PROCESSING]
            /\ tasks' = add_task([NoTask EXCEPT !.kind = "process",
                                                !.pc = "scheduled",
                                                !.teaser_id = teaser_id,
                                                !.nargs = 2,
                                                !.selected = building_blocks])
            /\ Respond("process", 200)
    /\ UNCHANGED <<next_id, running, env, cancelled>>

\* variant of get_teaser_report: the status of the teaser is not looked at
get_teaser_report_any_status(teaser_id, on_disk) ==
    /\ running = 0
    /\ IF ~Found(teasers, teaser_id)
       THEN Respond("report", 404)
       ELSE IF teasers[teaser_id].report_path = NoPath
       THEN Respond("report", 404)
       ELSE IF ~on_disk
       THEN Respond("report", 404)
       ELSE Respond("report", 200)
    /\ UNCHANGED <<teasers, next_id, tasks, running, env, cancelled>>

\* GET /teasers/{id}/report (main.py 119-139): the file is served for a
\* COMPLETED teaser with a report_path whose file is on disk; everything else
\* is answered 404
get_teaser_report(teaser_id, on_disk) ==
    /\ running = 0
    /\ IF ~Found(teasers, teaser_id)
       THEN Respond("report", 404)
       ELSE IF teasers[teaser_id].status # COMPLETED
               \/ teasers[teaser_id].report_path = NoPath
       THEN Respond("report", 404)
       ELSE IF ~on_disk
       THEN Respond("report", 404)
       ELSE Respond("report", 200)
    /\ UNCHANGED <<teasers, next_id, tasks, running, env, cancelled>>

\* variant of cancel_teaser_processing: any status but ERROR can be cancelled
cancel_teaser_processing_any(teaser_id) ==
    /\ running = 0
    /\ IF ~Found(teasers, teaser_id)
       THEN /\ Respond("cancel", 404)
            /\ UNCHANGED <<teasers, cancelled>>
       ELSE IF teasers[teaser_id].status = ERROR
       THEN /\ Respond("cancel", 400)
            /\ UNCHANGED <<teasers, cancelled>>
       ELSE /\ teasers' = [teasers EXCEPT ![teaser_id].status = ERROR]
            /\ cancelled' = cancelled \cup InFlight(teaser_id)
            /\ Respond("cancel", 200)
    /\ UNCHANGED <<next_id, tasks, running, env>>

\* POST /teasers/{teaser_id}/cancel  (main.py 189-212)
cancel_teaser_processing(teaser_id) ==
    /\ running = 0
    /\ IF ~Found(teasers, teaser_id)
       THEN /\ Respond("cancel", 404)
            /\ UNCHANGED <<teasers, cancelled>>
       ELSE IF teasers[teaser_id].status # PROCESSING
       THEN /\ Respond("cancel", 400)
            /\ UNCHANGED <<teasers, cancelled>>
       ELSE /\ teasers' = [teasers EXCEPT ![teaser_id].status = ERROR]
            /\ cancelled' = cancelled \cup InFlight(teaser_id)
            /\ Respond("cancel", 200)
    /\ UNCHANGED <<next_id, tasks, running, env>>

(* ==================== main.py: the background tasks =================== *)
SetTask(k, t) == tasks' = [tasks EXCEPT ![k] = t]

\* process_pdf starts once the upload's response is out and awaits
\* PDFParser.extract_text_from_pdf, which returns the stripped text
\* (main.py 54-56)
process_pdf_extract(k, extracted_text) ==
    /\ running = 0
    /\ tasks[k].kind = "process_pdf"
    /\ tasks[k].pc = "scheduled"
    /\ running' = k
    /\ SetTask(k, [tasks[k] EXCEPT !.text = extracted_text, !.pc = "pdf_update"])
    /\ UNCHANGED <<teasers, next_id, response, env, cancelled>>

\* process_pdf: the row is looked up by filename, newest first (main.py 58-69)
process_pdf_update(k) ==
    /\ running = k
    /\ tasks[k].kind = "process_pdf"
    /\ tasks[k].pc = "pdf_update"
    /\ LET db_teaser == LatestByFilename(teasers, tasks[k].filename)
       IN IF db_teaser = 0
          THEN /\ SetTask(k, [tasks[k] EXCEPT !.pc = "done"])
               /\ UNCHANGED teasers
          ELSE /\ teasers' = [teasers EXCEPT
                                 ![db_teaser].extracted_text = tasks[k].text,
                                 ![db_teaser].status = PROCESSING]
               /\ SetTask(k, [tasks[k] EXCEPT !.teaser_id = db_teaser,
                                              !.nargs = 1,
                                              !.pc = "call_process"])
    /\ UNCHANGED <<next_id, running, response, env, cancelled>>

(* ===================== pipeline/base.py: Pipeline ===================== *)
\* positional parameters of Pipeline.process besides self (base.py 13);
\* neither subclass overrides process
ProcessParams == 1

\* the call pipeline.process(*args): by process_pdf with (db_teaser.id), by
\* the background task of process_teaser with (teaser_id, building_blocks).
\* A call with more positional arguments than parameters raises TypeError
\* before the body, and its try block, is entered.
call_process(k) ==
    /\ \/ running = k /\ tasks[k].kind = "process_pdf" /\ tasks[k].pc = "call_process"
       \/ running = 0 /\ tasks[k].kind = "process" /\ tasks[k].pc = "scheduled"
    /\ running' = k
    /\ IF tasks[k].nargs # ProcessParams
       THEN SetTask(k, [tasks[k] EXCEPT !.raised = "TypeError", !.pc = "done"])
       ELSE SetTask(k, [tasks[k] EXCEPT !.pc = "process"])
    /\ UNCHANGED <<teasers, next_id, response, env, cancelled>>

\* where _run_pipeline_steps returns to
ReturnPc(t) == IF t.kind = "steps" THEN "done" ELSE "process_after_steps"

\* Pipeline.process up to the call of _run_pipeline_steps, which is handed the
\* Teaser object (base.py 18-30)
process_begin(k) ==
    /\ running = k
    /\ tasks[k].pc = "process"
    /\ LET id == tasks[k].teaser_id
       IN IF ~Found(teasers, id)
          THEN /\ SetTask(k, [tasks[k] EXCEPT !.ret = "False", !.pc = "done"])
               /\ UNCHANGED teasers
          ELSE /\ teasers' = [teasers EXCEPT ![id].status = PROCESSING]
               /\ SetTask(k, [tasks[k] EXCEPT !.arg = TeaserObj(id),
                                              !.pc = "steps_lookup"])
    /\ UNCHANGED <<next_id, running, response, env, cancelled>>

(* ================= the LLM client: request and response ================ *)
\* _analyze_multiple_blocks_with_gpt of both pipeline classes.  A text is a
\* sequence of atoms: the pieces of the markers ("---", "SECTION: ",
\* "Section: ", a block's name, ":", an index with its ". "), the blank and
\* words of content.  str.find, slicing, strip and split act on atoms as they
\* act on characters.

\* number of chunks (markers, pieces of content) a response is made of
MaxChunks == 4

WS == " "
Range(seq) == {seq[i] : i \in 1..Len(seq)}
\* the 'name' of a block in building_blocks
BlockName == [b \in Blocks |-> IF b = "teaser_summary" THEN "Teaser Summary" ELSE "Risk"]

Min(S) == CHOOSE x \in S : \A y \in S : x <= y
Max(S) == CHOOSE x \in S : \A y \in S : y <= x

\* the markers of a section, as the parser spells them
section_marker(b) == <<"---", "SECTION: ", BlockName[b], "---">>
alt_section_marker(b) == <<"SECTION: ", BlockName[b]>>
mixed_case_marker(b) == <<"Section: ", BlockName[b]>>
colon_marker(b) == <<BlockName[b], ":">>
numbered_marker(i, b) == <<ToString(i), ". ", BlockName[b]>>

\* text.find(pat, from): the first position at or after from where pat
\* occurs, 0 when there is none (positions count from 1)
Find(text, pat, from) ==
    LET hits == {i \in from..(Len(text) - Len(pat) + 1) :
                    SubSeq(text, i, i + Len(pat) - 1) = pat}
    IN IF hits = {} THEN 0 ELSE Min(hits)

\* text.strip()
Strip(text) ==
    LET solid == {i \in 1..Len(text) : text[i] # WS}
    IN IF solid = {} THEN << >> ELSE SubSeq(text, Min(solid), Max(solid))

\* a block the parser has no entry for
Missing == <<"<no entry>">>

\* position of block b in the request
IndexOf(blocks_to_process, b) ==
    Min({i \in 1..Len(blocks_to_process) : blocks_to_process[i] = b})

\* variant of start_idx: the form with the colon is tried before the form
\* "Section: "
start_idx_colon_first(full_response, blocks_to_process, i) ==
    LET b == blocks_to_process[i]
        markers == <<section_marker(b), alt_section_marker(b),
                     colon_marker(b), mixed_case_marker(b), numbered_marker(i, b)>>
        found == {j \in 1..Len(markers) : Find(full_response, markers[j], 1) # 0}
    IN IF found = {} THEN 0
       ELSE Find(full_response, markers[Min(found)], 1) + Len(markers[Min(found)])

\* variant of start_idx: a section without marker starts at the beginning of
\* the response
start_idx_lenient(full_response, blocks_to_process, i) ==
    LET b == blocks_to_process[i]
        markers == <<section_marker(b), alt_section_marker(b),
                     mixed_case_marker(b), colon_marker(b), numbered_marker(i, b)>>
        found == {j \in 1..Len(markers) : Find(full_response, markers[j], 1) # 0}
    IN IF found = {} THEN 1
       ELSE Find(full_response, markers[Min(found)], 1) + Len(markers[Min(found)])

\* where the content of the i-th requested section starts: after the first
\* of the markers, tried in this order, that occurs; 0 when none occurs
\* (teaser_pipeline.py 394-416)
start_idx(full_response, blocks_to_process, i) ==
    LET b == blocks_to_process[i]
        markers == <<section_marker(b), alt_section_marker(b),
                     mixed_case_marker(b), colon_marker(b), numbered_marker(i, b)>>
        found == {j \in 1..Len(markers) : Find(full_response, markers[j], 1) # 0}
    IN IF found = {} THEN 0
       ELSE Find(full_response, markers[Min(found)], 1) + Len(markers[Min(found)])

\* variant of end_idx: a section is never closed by the marker of a later one
end_idx_never(full_response, blocks_to_process, i, start) == 0

\* where it ends: at the first marker, found from start on, of the first
\* later block of the request that has one; 0 when there is none
\* (teaser_pipeline.py 418-427)
end_idx(full_response, blocks_to_process, i, start) ==
    LET markers(b) == <<section_marker(b), alt_section_marker(b),
                        mixed_case_marker(b), colon_marker(b)>>
        hit(j, m) == Find(full_response, markers(blocks_to_process[j])[m], start)
        later == {j \in (i + 1)..Len(blocks_to_process) :
                     \E m \in 1..4 : hit(j, m) # 0}
    IN IF later = {} THEN 0
       ELSE LET j == Min(later)
                m == Min({n \in 1..4 : hit(j, n) # 0})
            IN hit(j, m)

\* the marker-search parser of TeaserProcessingPipeline
\* (teaser_pipeline.py 391-438)
parse_sections_nested(full_response, blocks_to_process) ==
    [b \in Blocks |->
        IF b \notin Range(blocks_to_process) THEN Missing
        ELSE LET i == IndexOf(blocks_to_process, b)
                 start == start_idx(full_response, blocks_to_process, i)
                 end == end_idx(full_response, blocks_to_process, i, start)
             IN IF start = 0 THEN Missing
                ELSE IF end # 0
                THEN Strip(SubSeq(full_response, start, end - 1))
                ELSE Strip(SubSeq(full_response, start, Len(full_response)))]

\* text.split(sep): the pieces between the occurrences of sep, left to right
RECURSIVE Split(_, _)
Split(text, sep) ==
    LET p == Find(text, sep, 1)
    IN IF p = 0 THEN <<text>>
       ELSE <<SubSeq(text, 1, p - 1)>>
            \o Split(SubSeq(text, p + Len(sep), Len(text)), sep)

\* text.rstrip("-")
RECURSIVE RStripDashes(_)
RStripDashes(text) ==
    IF text # << >> /\ text[Len(text)] = "---"
    THEN RStripDashes(SubSeq(text, 1, Len(text) - 1))
    ELSE text

\* text.lower()
Lower(text) ==
    [i \in DOMAIN text |->
        CASE text[i] = "SECTION: " -> "section: "
          [] text[i] = "Section: " -> "section: "
          [] text[i] = "Teaser Summary" -> "teaser summary"
          [] text[i] = "Risk" -> "risk"
          [] OTHER -> text[i]]

\* needle in hay
Contains(hay, needle) == needle = << >> \/ Find(hay, needle, 1) # 0

\* the block one piece of the split is stored under: the block of that exact
\* name, else the first requested block whose name contains the piece's name
\* or is contained in it, else none (simple 356-371)
section_block(section_name, blocks_to_process) ==
    LET exact == {i \in 1..Len(blocks_to_process) :
                     <<BlockName[blocks_to_process[i]]>> = section_name}
        fuzzy == {i \in 1..Len(blocks_to_process) :
                     LET name == <<BlockName[blocks_to_process[i]]>>
                     IN \/ Contains(Lower(name), Lower(section_name))
                        \/ Contains(Lower(section_name), Lower(name))}
    IN IF exact # {} THEN blocks_to_process[Min(exact)]
       ELSE IF fuzzy # {} THEN blocks_to_process[Min(fuzzy)]
       ELSE None

\* variant of store_sections: the content of a piece is stored as it is cut
RECURSIVE store_sections_unstripped(_, _, _)
store_sections_unstripped(section_splits, blocks_to_process, results) ==
    IF section_splits = << >> THEN results
    ELSE LET section_text == Head(section_splits)
             p == Find(section_text, <<"---">>, 1)
             section_name_part ==
                 Strip(IF p = 0 THEN section_text ELSE SubSeq(section_text, 1, p - 1))
             section_name == Strip(RStripDashes(section_name_part))
             content == IF p # 0
                        THEN SubSeq(section_text, p + 1, Len(section_text))
                        ELSE section_text
             block_id == section_block(section_name, blocks_to_process)
         IN store_sections_unstripped(Tail(section_splits), blocks_to_process,
                                      IF block_id = None THEN results
                                      ELSE [results EXCEPT ![block_id] = content])

\* the loop over the pieces: each piece overwrites what an earlier piece
\* stored under the same block (simple 344-371)
RECURSIVE store_sections(_, _, _)
store_sections(section_splits, blocks_to_process, results) ==
    IF section_splits = << >> THEN results
    ELSE LET section_text == Head(section_splits)
             p == Find(section_text, <<"---">>, 1)
             section_name_part ==
                 Strip(IF p = 0 THEN section_text ELSE SubSeq(section_text, 1, p - 1))
             section_name == Strip(RStripDashes(section_name_part))
             content == IF p # 0
                        THEN Strip(SubSeq(section_text, p + 1, Len(section_text)))
                        ELSE section_text
             block_id == section_block(section_name, blocks_to_process)
         IN store_sections(Tail(section_splits), blocks_to_process,
                           IF block_id = None THEN results
                           ELSE [results EXCEPT ![block_id] = content])

\* the split parser of the flat pipeline (simple 332-374)
parse_sections_flat(full_response, blocks_to_process) ==
    store_sections(Tail(Split(full_response, <<"---", "SECTION: ">>)),
                   blocks_to_process, [b \in Blocks |-> Missing])

(* ============ the lifecycle controller: _run_pipeline_steps ============ *)
\* pipeline/teaser_pipeline.py (TeaserProcessingPipeline, nested storage) and
\* pipeline/simple_openai/teaser_pipeline.py (SimpleOpenAIPipeline, flat)
NESTED == "TeaserProcessingPipeline"
FLAT == "SimpleOpenAIPipeline"

\* Python truth of a column value: None, "" and {} are false
Truthy(x) == x \notin {None, "", "{}"}
\* truth of gpt_analysis: a mapping with at least one key
AnalysisTruthy(a) == \E b \in Blocks : a[b] \notin {None, "absent"}

\* db.query(Teaser).filter(Teaser.id == teaser_id).first().  The parameter is
\* compared with an Integer column: an integer finds the row or nothing; a
\* Teaser instance is no value the column can be compared with and the query
\* raises.
Lookup(db, arg) ==
    IF arg.type # "int" THEN "raises"
    ELSE IF Found(db, arg.id) THEN "row" ELSE "none"

\* what the LLM analysis can hand run k back for the requested blocks: no
\* entry (request failed, marker not found), an empty section, or a text;
\* no two requests are answered with the same text
ResultTexts(k) == {"", ToString(k)}
BatchResults(k, valid) ==
    {f \in [Blocks -> {"absent"} \cup ResultTexts(k)] :
        \A b \in Blocks \ Range(valid) : f[b] = "absent"}

\* the path the renderer writes for teaser id
ReportPath(id) == id

\* a caller invokes _run_pipeline_steps(teaser_id, selected_blocks) as its
\* signature documents, with an integer id
start_steps(teaser_id, selected_blocks) ==
    /\ running = 0
    /\ FreeSlots # {}
    /\ LET k == CHOOSE f \in FreeSlots : \A g \in FreeSlots : f <= g
       IN /\ running' = k
          /\ SetTask(k, [NoTask EXCEPT !.kind = "steps",
                                       !.pc = "steps_lookup",
                                       !.teaser_id = teaser_id,
                                       !.arg = IntArg(teaser_id),
                                       !.selected = selected_blocks])
    /\ UNCHANGED <<teasers, next_id, response, env, cancelled>>

\* fetch the teaser (teaser_pipeline.py 129-134, simple 125-130)
steps_lookup(k) ==
    /\ running = k
    /\ tasks[k].pc = "steps_lookup"
    /\ LET t == tasks[k]
           found == Lookup(teasers, t.arg)
       IN SetTask(k,
            IF found = "raises" THEN [t EXCEPT !.pc = "steps_except"]
            ELSE IF found = "none"
            THEN [t EXCEPT !.result = "False", !.pc = ReturnPc(t)]
            ELSE [t EXCEPT !.pc = "steps_entities"])
    /\ UNCHANGED <<teasers, next_id, running, response, env, cancelled>>

\* variant of steps_entities: entities are extracted whether or not the
\* teaser has some
steps_entities_always(k, extracted) ==
    /\ running = k
    /\ tasks[k].pc = "steps_entities"
    /\ LET t == tasks[k]
           row == teasers[t.arg.id]
       IN IF Truthy(row.extracted_text)
          THEN IF extracted = "raises"
               THEN /\ SetTask(k, [t EXCEPT !.stages = @ \cup {"entities"},
                                            !.pc = "steps_except"])
                    /\ UNCHANGED teasers
               ELSE /\ teasers' = [teasers EXCEPT ![t.arg.id].entities = extracted]
                    /\ SetTask(k, [t EXCEPT !.stages = @ \cup {"entities"},
                                            !.pc = "steps_init"])
          ELSE /\ extracted = "{}"
               /\ SetTask(k, [t EXCEPT !.pc = "steps_init"])
               /\ UNCHANGED teasers
    /\ UNCHANGED <<next_id, running, response, env, cancelled>>

\* entity tagging (teaser_pipeline.py 136-139, simple 132-135); the
\* extractor returns a mapping, possibly empty, or raises
steps_entities(k, extracted) ==
    /\ running = k
    /\ tasks[k].pc = "steps_entities"
    /\ LET t == tasks[k]
           row == teasers[t.arg.id]
       IN IF ~Truthy(row.entities) /\ Truthy(row.extracted_text)
          THEN IF extracted = "raises"
               THEN /\ SetTask(k, [t EXCEPT !.stages = @ \cup {"entities"},
                                            !.pc = "steps_except"])
                    /\ UNCHANGED teasers
               ELSE /\ teasers' = [teasers EXCEPT ![t.arg.id].entities = extracted]
                    /\ SetTask(k, [t EXCEPT !.stages = @ \cup {"entities"},
                                            !.pc = "steps_init"])
          ELSE /\ extracted = "{}"
               /\ SetTask(k, [t EXCEPT !.pc = "steps_init"])
               /\ UNCHANGED teasers
    /\ UNCHANGED <<next_id, running, response, env, cancelled>>

\* the nested pipeline gives a NULL gpt_analysis the empty taxonomy skeleton
\* (teaser_pipeline.py 141-176); the flat pipeline has no such step
steps_init(k) ==
    /\ running = k
    /\ tasks[k].pc = "steps_init"
    /\ LET t == tasks[k]
           row == teasers[t.arg.id]
       IN SetTask(k,
            IF pipeline = NESTED /\ row.gpt_analysis = NoAnalysis
            THEN [t EXCEPT !.analysis = Skeleton, !.dirty = TRUE, !.pc = "steps_gate"]
            ELSE [t EXCEPT !.analysis = row.gpt_analysis, !.pc = "steps_gate"])
    /\ UNCHANGED <<teasers, next_id, running, response, env, cancelled>>

\* the response token budget of a batched request for n blocks
\* (teaser_pipeline.py 360, simple 287)
max_tokens(p, n) ==
    LET wanted == 1000 + n * (IF p = NESTED THEN 500 ELSE 150)
    IN IF 4000 < wanted THEN 4000 ELSE wanted

\* variant of steps_gate: the requested ids are not filtered by the registry
steps_gate_unfiltered(k) ==
    /\ running = k
    /\ tasks[k].pc = "steps_gate"
    /\ LET t == tasks[k]
           row == teasers[t.arg.id]
           blocks_to_process == IF t.selected # << >> THEN t.selected ELSE AllBlocks
       IN IF Truthy(row.extracted_text) /\ api_key
          THEN /\ SetTask(k, [t EXCEPT !.valid = blocks_to_process,
                                       !.stages = @ \cup {"llm"},
                                       !.nreq = @ + 1,
                                       !.max_tokens = max_tokens(pipeline, Len(blocks_to_process)),
                                       !.pc = "await_llm"])
               /\ running' = 0
          ELSE /\ SetTask(k, [t EXCEPT !.pc = "steps_report"])
               /\ UNCHANGED running
    /\ UNCHANGED <<teasers, next_id, response, env, cancelled>>

\* variant of steps_gate: the analysis phase does not look at the credentials
steps_gate_without_key(k) ==
    /\ running = k
    /\ tasks[k].pc = "steps_gate"
    /\ LET t == tasks[k]
           row == teasers[t.arg.id]
           blocks_to_process == IF t.selected # << >> THEN t.selected ELSE AllBlocks
           InRegistry(b) == b \in Blocks
           valid_blocks == SelectSeq(blocks_to_process, InRegistry)
       IN IF Truthy(row.extracted_text)
          THEN IF valid_blocks # << >>
               THEN /\ SetTask(k, [t EXCEPT !.valid = valid_blocks,
                                            !.stages = @ \cup {"llm"},
                                            !.nreq = @ + 1,
                                            !.max_tokens = max_tokens(pipeline, Len(valid_blocks)),
                                            !.pc = "await_llm"])
                    /\ running' = 0
               ELSE /\ SetTask(k, [t EXCEPT !.pc = IF pipeline = NESTED
                                                   THEN "steps_commit"
                                                   ELSE "steps_report"])
                    /\ UNCHANGED running
          ELSE /\ SetTask(k, [t EXCEPT !.pc = "steps_report"])
               /\ UNCHANGED running
    /\ UNCHANGED <<teasers, next_id, response, env, cancelled>>

\* variant of steps_gate: a selection without any registered id is treated
\* like no selection
steps_gate_falls_back(k) ==
    /\ running = k
    /\ tasks[k].pc = "steps_gate"
    /\ LET t == tasks[k]
           row == teasers[t.arg.id]
           blocks_to_process == IF t.selected # << >> THEN t.selected ELSE AllBlocks
           InRegistry(b) == b \in Blocks
           filtered == SelectSeq(blocks_to_process, InRegistry)
           valid_blocks == IF filtered # << >> THEN filtered ELSE AllBlocks
       IN IF Truthy(row.extracted_text) /\ api_key
          THEN /\ SetTask(k, [t EXCEPT !.valid = valid_blocks,
                                       !.stages = @ \cup {"llm"},
                                       !.nreq = @ + 1,
                                       !.max_tokens = max_tokens(pipeline, Len(valid_blocks)),
                                       !.pc = "await_llm"])
               /\ running' = 0
          ELSE /\ SetTask(k, [t EXCEPT !.pc = "steps_report"])
               /\ UNCHANGED running
    /\ UNCHANGED <<teasers, next_id, response, env, cancelled>>

\* the analysis phase runs only with text and credentials; the selection is
\* resolved against the registry and one batched request goes out
\* (teaser_pipeline.py 178-230 and 302-373, simple 137-157)
steps_gate(k) ==
    /\ running = k
    /\ tasks[k].pc = "steps_gate"
    /\ LET t == tasks[k]
           row == teasers[t.arg.id]
           blocks_to_process == IF t.selected # << >> THEN t.selected ELSE AllBlocks
           InRegistry(b) == b \in Blocks
           valid_blocks == SelectSeq(blocks_to_process, InRegistry)
       IN IF Truthy(row.extracted_text) /\ api_key
          THEN IF valid_blocks # << >>
               THEN /\ SetTask(k, [t EXCEPT !.valid = valid_blocks,
                                            !.stages = @ \cup {"llm"},
                                            !.nreq = @ + 1,
                                            !.max_tokens = max_tokens(pipeline, Len(valid_blocks)),
                                            !.pc = "await_llm"])
                    /\ running' = 0
               ELSE /\ SetTask(k, [t EXCEPT !.pc = IF pipeline = NESTED
                                                   THEN "steps_commit"
                                                   ELSE "steps_report"])
                    /\ UNCHANGED running
          ELSE /\ SetTask(k, [t EXCEPT !.pc = "steps_report"])
               /\ UNCHANGED running
    /\ UNCHANGED <<teasers, next_id, response, env, cancelled>>

\* the request ends: _analyze_multiple_blocks_with_gpt returns batch_results
\* (teaser_pipeline.py 374-444, simple 294-380)
llm_done(k, batch_results) ==
    /\ running = 0
    /\ tasks[k].pc = "await_llm"
    /\ batch_results \in BatchResults(k, tasks[k].valid)
    /\ running' = k
    /\ SetTask(k, [tasks[k] EXCEPT !.batch = batch_results,
                                   !.idx = 1,
                                   !.pc = IF pipeline = NESTED
                                          THEN "steps_merge" ELSE "steps_store"])
    /\ UNCHANGED <<teasers, next_id, response, env, cancelled>>

\* the responses the service can give: up to MaxChunks markers and pieces of
\* content in any order
Chunks ==
    {section_marker(b) : b \in Blocks}
    \cup {alt_section_marker("teaser_summary"), mixed_case_marker("teaser_summary"),
          colon_marker("teaser_summary"), numbered_marker(1, "teaser_summary"),
          colon_marker("risk"), <<"---">>, <<WS, "x", WS>>, <<"y">>}
RECURSIVE Texts(_)
Texts(n) ==
    IF n = 0 THEN {<< >>}
    ELSE LET shorter == Texts(n - 1)
         IN shorter \cup {t \o c : t \in shorter, c \in Chunks}
Responses == Texts(MaxChunks)

\* how the one request can end: a 200 with a well-formed body, a 200 whose
\* body lacks choices[0].message.content, another status, a network error
Outcomes == {"ok", "malformed", "status_429", "status_500", "ClientError"}

parse_sections(full_response, blocks_to_process) ==
    IF pipeline = NESTED
    THEN parse_sections_nested(full_response, blocks_to_process)
    ELSE parse_sections_flat(full_response, blocks_to_process)

\* what the controller does with a section text: the analysis of run k
\* records that a text is there, not its words
TextOf(k, content) ==
    IF content = Missing THEN "absent"
    ELSE IF content = << >> THEN "" ELSE ToString(k)

\* variant of llm_response: a request that did not succeed raises into the
\* controller
llm_response_raises(k) ==
    /\ running = 0
    /\ tasks[k].pc = "await_llm"
    /\ running' = k
    /\ \E outcome \in Outcomes :
       \E full_response \in IF outcome = "ok" THEN Responses ELSE {<< >>} :
          LET t == tasks[k]
              results == IF outcome = "ok"
                         THEN parse_sections(full_response, t.valid)
                         ELSE [b \in Blocks |-> Missing]
          IN SetTask(k, [t EXCEPT !.outcome = outcome,
                                  !.full_response = full_response,
                                  !.results = results,
                                  !.batch = [b \in Blocks |-> TextOf(k, results[b])],
                                  !.idx = 1,
                                  !.pc = IF outcome # "ok" THEN "steps_except"
                                         ELSE IF pipeline = NESTED
                                         THEN "steps_merge" ELSE "steps_store"])
    /\ UNCHANGED <<teasers, next_id, response, env, cancelled>>

\* variant of llm_response: a request that did not succeed is sent once more
llm_response_retry(k) ==
    /\ running = 0
    /\ tasks[k].pc = "await_llm"
    /\ \E outcome \in Outcomes :
       \E full_response \in IF outcome = "ok" THEN Responses ELSE {<< >>} :
          LET t == tasks[k]
              results == IF outcome = "ok"
                         THEN parse_sections(full_response, t.valid)
                         ELSE [b \in Blocks |-> Missing]
          IN IF outcome # "ok" /\ t.nreq < 2
             THEN /\ SetTask(k, [t EXCEPT !.nreq = @ + 1])
                  /\ UNCHANGED running
             ELSE /\ SetTask(k, [t EXCEPT !.outcome = outcome,
                                     !.full_response = full_response,
                                     !.results = results,
                                     !.batch = [b \in Blocks |-> TextOf(k, results[b])],
                                     !.idx = 1,
                                     !.pc = IF pipeline = NESTED
                                            THEN "steps_merge" ELSE "steps_store"])
                  /\ running' = k
    /\ UNCHANGED <<teasers, next_id, response, env, cancelled>>

\* the request ends with the given outcome and body; every outcome but a
\* well-formed 200 returns the empty results, a well-formed body is parsed
\* (teaser_pipeline.py 374-444, simple 303-380)
llm_response(k) ==
    /\ running = 0
    /\ tasks[k].pc = "await_llm"
    /\ running' = k
    /\ \E outcome \in Outcomes :
       \E full_response \in IF outcome = "ok" THEN Responses ELSE {<< >>} :
          LET t == tasks[k]
              results == IF outcome = "ok"
                         THEN parse_sections(full_response, t.valid)
                         ELSE [b \in Blocks |-> Missing]
          IN SetTask(k, [t EXCEPT !.outcome = outcome,
                                  !.full_response = full_response,
                                  !.results = results,
                                  !.batch = [b \in Blocks |-> TextOf(k, results[b])],
                                  !.idx = 1,
                                  !.pc = IF pipeline = NESTED
                                         THEN "steps_merge" ELSE "steps_store"])
    /\ UNCHANGED <<teasers, next_id, response, env, cancelled>>

\* variant of steps_merge: an empty result is written like any other
steps_merge_stores_empty(k) ==
    /\ running = k
    /\ tasks[k].pc = "steps_merge"
    /\ LET t == tasks[k]
           id == t.arg.id
           block_id == t.valid[t.idx]
           result == t.batch[block_id]
           next == IF t.idx = Len(t.valid) THEN "steps_commit" ELSE "steps_merge"
       IN IF result # "absent"
          THEN LET merged == IF t.analysis[block_id] = Shadowed
                             THEN t.analysis
                             ELSE [t.analysis EXCEPT ![block_id] = result]
                   committed == IF t.dirty THEN merged
                                ELSE teasers[id].gpt_analysis
               IN /\ teasers' = [teasers EXCEPT ![id].gpt_analysis = committed]
                  /\ SetTask(k, [t EXCEPT !.analysis = committed,
                                          !.dirty = FALSE,
                                          !.stages = @ \cup {"merge"},
                                          !.idx = @ + 1,
                                          !.pc = next])
          ELSE /\ SetTask(k, [t EXCEPT !.idx = @ + 1, !.pc = next])
               /\ UNCHANGED teasers
    /\ UNCHANGED <<next_id, running, response, env, cancelled>>

\* nested pipeline: one turn of the loop over batch_results; a non-empty
\* result is written in place into the loaded gpt_analysis and committed.
\* The column is a plain JSON column (models.py 20): the commit saves the
\* value only if the attribute was assigned since the last commit, and every
\* commit expires the loaded value, so that the next access reads the row.
\* Where the parent of the leaf is no mapping, the write is skipped with a
\* printed warning (both model blocks have paths of two keys)
\* (teaser_pipeline.py 232-254)
steps_merge(k) ==
    /\ running = k
    /\ tasks[k].pc = "steps_merge"
    /\ LET t == tasks[k]
           id == t.arg.id
           block_id == t.valid[t.idx]
           result == t.batch[block_id]
           next == IF t.idx = Len(t.valid) THEN "steps_commit" ELSE "steps_merge"
       IN IF result # "absent" /\ Truthy(result)
          THEN LET merged == IF t.analysis[block_id] = Shadowed
                             THEN t.analysis
                             ELSE [t.analysis EXCEPT ![block_id] = result]
                   committed == IF t.dirty THEN merged
                                ELSE teasers[id].gpt_analysis
               IN /\ teasers' = [teasers EXCEPT ![id].gpt_analysis = committed]
                  /\ SetTask(k, [t EXCEPT !.analysis = committed,
                                          !.dirty = FALSE,
                                          !.stages = @ \cup {"merge"},
                                          !.idx = @ + 1,
                                          !.pc = next])
          ELSE /\ SetTask(k, [t EXCEPT !.idx = @ + 1, !.pc = next])
               /\ UNCHANGED teasers
    /\ UNCHANGED <<next_id, running, response, env, cancelled>>

\* nested pipeline: the commit that closes the analysis phase
\* (teaser_pipeline.py 256-258)
steps_commit(k) ==
    /\ running = k
    /\ tasks[k].pc = "steps_commit"
    /\ LET t == tasks[k]
           id == t.arg.id
           committed == IF t.dirty THEN t.analysis ELSE teasers[id].gpt_analysis
       IN /\ teasers' = [teasers EXCEPT ![id].gpt_analysis = committed]
          /\ SetTask(k, [t EXCEPT !.analysis = committed,
                                  !.dirty = FALSE,
                                  !.pc = "steps_report"])
    /\ UNCHANGED <<next_id, running, response, env, cancelled>>

\* flat pipeline: gpt_analysis is replaced by one entry per valid block, the
\* section text or "", and committed once (simple 159-182)
steps_store(k) ==
    /\ running = k
    /\ tasks[k].pc = "steps_store"
    /\ LET t == tasks[k]
           stored == [b \in Blocks |->
                        IF b \notin Range(t.valid) THEN "absent"
                        ELSE IF t.batch[b] # "absent" /\ Truthy(t.batch[b])
                        THEN t.batch[b] ELSE ""]
       IN /\ teasers' = [teasers EXCEPT ![t.arg.id].gpt_analysis = stored]
          /\ SetTask(k, [t EXCEPT !.analysis = stored,
                                  !.stages = @ \cup {"merge"},
                                  !.pc = "steps_report"])
    /\ UNCHANGED <<next_id, running, response, env, cancelled>>

\* the renderer is invoked: _generate_report(teaser_id) looks the teaser up
\* and gives no path without an analysis (teaser_pipeline.py 265-266 and
\* 456-466); generate_screening_report(teaser) gives no path without an
\* analysis (simple 191-192, screening_report.py 20-30).  Otherwise the
\* document is built.
steps_report(k) ==
    /\ running = k
    /\ tasks[k].pc = "steps_report"
    /\ LET t == tasks[k]
           ready == /\ pipeline = NESTED => Lookup(teasers, t.arg) = "row"
                    /\ AnalysisTruthy(t.analysis)
       IN SetTask(k, [t EXCEPT !.stages = @ \cup {"report"},
                               !.nrender = @ + 1,
                               !.report = NoPath,
                               !.pc = IF ready THEN "render" ELSE "steps_final"])
    /\ UNCHANGED <<teasers, next_id, running, response, env, cancelled>>

\* the renderer returns the path of the document, or no path when building
\* it failed (teaser_pipeline.py 479-641, report_generator.py 26-154); it
\* does not suspend.  A string under "Teaser Summary" makes the nested
\* renderer fail at section_data.keys() (teaser_pipeline.py 526-527)
report_done(k, built) ==
    /\ running = k
    /\ tasks[k].pc = "render"
    /\ (/\ pipeline = NESTED
        /\ teasers[tasks[k].arg.id].gpt_analysis["teaser_summary"] = Shadowed) => ~built
    /\ SetTask(k, [tasks[k] EXCEPT
                     !.report = IF built THEN ReportPath(tasks[k].arg.id) ELSE NoPath,
                     !.pc = "steps_final"])
    /\ UNCHANGED <<teasers, next_id, running, response, env, cancelled>>

\* variants of steps_final.  FinalCommit: the terminal commit with the
\* status given for either outcome and the path written or not
FinalCommit(k, on_path, on_no_path, write_path) ==
    /\ running = k
    /\ tasks[k].pc = "steps_final"
    /\ LET t == tasks[k]
           id == t.arg.id
           saved == IF t.dirty THEN t.analysis ELSE teasers[id].gpt_analysis
       IN IF t.report # NoPath
          THEN /\ teasers' = [teasers EXCEPT
                                 ![id].report_path = IF write_path THEN t.report ELSE @,
                                 ![id].status = on_path,
                                 ![id].gpt_analysis = saved]
               /\ SetTask(k, [t EXCEPT !.result = "True",
                                       !.dirty = FALSE,
                                       !.stages = @ \cup {"completed"},
                                       !.pc = ReturnPc(t)])
          ELSE /\ teasers' = [teasers EXCEPT ![id].status = on_no_path,
                                             ![id].gpt_analysis = saved]
               /\ SetTask(k, [t EXCEPT !.result = "False",
                                       !.dirty = FALSE,
                                       !.pc = ReturnPc(t)])
    /\ UNCHANGED <<next_id, running, response, env, cancelled>>

\* a run that was cancelled gives up at its last step
steps_final_honours_cancel(k) ==
    IF k \in cancelled
    THEN /\ running = k
         /\ tasks[k].pc = "steps_final"
         /\ SetTask(k, [tasks[k] EXCEPT !.result = "False", !.pc = ReturnPc(tasks[k])])
         /\ UNCHANGED <<teasers, next_id, running, response, env, cancelled>>
    ELSE FinalCommit(k, COMPLETED, ERROR, TRUE)

\* a run without a report leaves the status as it is
steps_final_no_error(k) ==
    FinalCommit(k, COMPLETED, teasers[tasks[k].arg.id].status, TRUE)

\* the path is not written in the commit that sets COMPLETED
steps_final_split_commit(k) == FinalCommit(k, COMPLETED, ERROR, FALSE)

\* variant of steps_final: after the commit of COMPLETED the run goes back to
\* the report stage once
steps_final_renders_again(k) ==
    /\ running = k
    /\ tasks[k].pc = "steps_final"
    /\ LET t == tasks[k]
           id == t.arg.id
           saved == IF t.dirty THEN t.analysis ELSE teasers[id].gpt_analysis
       IN IF t.report # NoPath
          THEN /\ teasers' = [teasers EXCEPT ![id].report_path = t.report,
                                             ![id].status = COMPLETED,
                                             ![id].gpt_analysis = saved]
               /\ SetTask(k, [t EXCEPT !.result = "True",
                                       !.dirty = FALSE,
                                       !.stages = @ \cup {"completed"},
                                       !.pc = IF t.nrender < 2 THEN "steps_report"
                                              ELSE ReturnPc(t)])
          ELSE /\ teasers' = [teasers EXCEPT ![id].status = ERROR,
                                             ![id].gpt_analysis = saved]
               /\ SetTask(k, [t EXCEPT !.result = "False",
                                       !.dirty = FALSE,
                                       !.pc = ReturnPc(t)])
    /\ UNCHANGED <<next_id, running, response, env, cancelled>>

\* the terminal transition, one commit (teaser_pipeline.py 267-276,
\* simple 193-201); the commit also saves an analysis not yet saved
steps_final(k) ==
    /\ running = k
    /\ tasks[k].pc = "steps_final"
    /\ LET t == tasks[k]
           id == t.arg.id
           saved == IF t.dirty THEN t.analysis ELSE teasers[id].gpt_analysis
       IN IF t.report # NoPath
          THEN /\ teasers' = [teasers EXCEPT ![id].report_path = t.report,
                                             ![id].status = COMPLETED,
                                             ![id].gpt_analysis = saved]
               /\ SetTask(k, [t EXCEPT !.result = "True",
                                       !.dirty = FALSE,
                                       !.stages = @ \cup {"completed"},
                                       !.pc = ReturnPc(t)])
          ELSE /\ teasers' = [teasers EXCEPT ![id].status = ERROR,
                                             ![id].gpt_analysis = saved]
               /\ SetTask(k, [t EXCEPT !.result = "False",
                                       !.dirty = FALSE,
                                       !.pc = ReturnPc(t)])
    /\ UNCHANGED <<next_id, running, response, env, cancelled>>

\* variant of steps_except: the exception is swallowed, the status is left
steps_except_swallow(k) ==
    /\ running = k
    /\ tasks[k].pc = "steps_except"
    /\ SetTask(k, [tasks[k] EXCEPT !.raised = "Exception",
                                   !.result = "False",
                                   !.pc = ReturnPc(tasks[k])])
    /\ UNCHANGED <<teasers, next_id, running, response, env, cancelled>>

\* the handler of the run's try block: the teaser is looked up again and
\* marked ERROR; a failure of the handler itself is swallowed
\* (teaser_pipeline.py 278-288, simple 203-215)
steps_except(k) ==
    /\ running = k
    /\ tasks[k].pc = "steps_except"
    /\ LET t == tasks[k]
       IN /\ teasers' = IF Lookup(teasers, t.arg) = "row"
                        THEN [teasers EXCEPT ![t.arg.id].status = ERROR]
                        ELSE teasers
          /\ SetTask(k, [t EXCEPT !.raised = "Exception",
                                  !.result = "False",
                                  !.pc = ReturnPc(t)])
    /\ UNCHANGED <<next_id, running, response, env, cancelled>>

(* ============== pipeline/base.py: Pipeline.process, the rest =========== *)
\* _generate_report(teaser) as Pipeline.process calls it, with the Teaser
\* object: the nested pipeline's override looks the argument up as an id and
\* returns no path when the lookup raises; the flat pipeline inherits the
\* placeholder, which returns a path (base.py 37 and 69-76,
\* teaser_pipeline.py 456-466 and 637-641)
process_generate_report(db, id) ==
    IF pipeline = NESTED
    THEN IF Lookup(db, TeaserObj(id)) = "row" /\ AnalysisTruthy(db[id].gpt_analysis)
         THEN ReportPath(id) ELSE NoPath
    ELSE ReportPath(id)

\* variant of process_after_steps: the failure of the steps is not passed on
\* to the caller
process_after_steps_reports_success(k) ==
    /\ running = k
    /\ tasks[k].pc = "process_after_steps"
    /\ LET t == tasks[k]
           id == t.teaser_id
       IN /\ teasers' = [teasers EXCEPT ![id].status = ERROR]
          /\ SetTask(k, [t EXCEPT !.ret = "True", !.pc = "done"])
    /\ UNCHANGED <<next_id, running, response, env, cancelled>>

\* Pipeline.process after _run_pipeline_steps has returned (base.py 30-48)
process_after_steps(k) ==
    /\ running = k
    /\ tasks[k].pc = "process_after_steps"
    /\ LET t == tasks[k]
           id == t.teaser_id
           report_path == process_generate_report(teasers, id)
       IN IF t.result # "True"
          THEN /\ teasers' = [teasers EXCEPT ![id].status = ERROR]
               /\ SetTask(k, [t EXCEPT !.ret = "False", !.pc = "done"])
          ELSE IF report_path = NoPath
          THEN /\ teasers' = [teasers EXCEPT ![id].status = ERROR]
               /\ SetTask(k, [t EXCEPT !.stages = @ \cup {"report"},
                                       !.nrender = @ + 1,
                                       !.ret = "False", !.pc = "done"])
          ELSE /\ teasers' = [teasers EXCEPT ![id].status = COMPLETED,
                                             ![id].report_path = report_path]
               /\ SetTask(k, [t EXCEPT !.stages = @ \cup {"report"},
                                       !.nrender = @ + 1,
                                       !.ret = "True", !.pc = "done"])
    /\ UNCHANGED <<next_id, running, response, env, cancelled>>

\* the coroutine has returned or raised: the task is gone and the event loop
\* is free again (main.py 97 and 185, background_tasks.add_task)
task_exit(k) ==
    /\ running = k
    /\ tasks[k].pc = "done"
    /\ running' = 0
    /\ SetTask(k, Exited)
    /\ cancelled' = cancelled \ {k}
    /\ UNCHANGED <<teasers, next_id, response, env>>

(* ========================== specifications ============================ *)
NoResponse == [op |-> "none", code |-> 0]

\* the server after start-up: an empty table, no task; the deployment of
\* main.py instantiates TeaserProcessingPipeline (main.py 14, 68, 184)
Init ==
    /\ teasers = [i \in TeaserIds |-> NoRow]
    /\ next_id = 1
    /\ tasks = [k \in TaskIds |-> NoTask]
    /\ running = 0
    /\ response = NoResponse
    /\ api_key \in BOOLEAN
    /\ pipeline = NESTED
    /\ cancelled = {}

Next ==
    \/ \E f \in PdfFiles \cup OtherFiles : upload_teaser(f)
    \/ \E t \in TeaserIds, b \in Selections : process_teaser(t, b)
    \/ \E t \in TeaserIds : cancel_teaser_processing(t)
    \/ \E t \in TeaserIds, e \in BOOLEAN : get_teaser_report(t, e)
    \/ \E k \in TaskIds, x \in ExtractedTexts : process_pdf_extract(k, x)
    \/ \E k \in TaskIds : process_pdf_update(k)
    \/ \E k \in TaskIds : call_process(k)
    \/ \E k \in TaskIds : process_begin(k)
    \/ \E k \in TaskIds : steps_lookup(k)
    \/ \E k \in TaskIds : steps_except(k)
    \/ \E k \in TaskIds : process_after_steps(k)
    \/ \E k \in TaskIds : task_exit(k)

Spec == Init /\ [][Next]_vars

\* The controller on its own.  The table holds one row, with the status
\* models.Teaser defaults to or the one an upload gives it, the text as
\* extraction stored it, entities tagged or not, no analysis, no report; the
\* other ids are unknown.  Callers invoke _run_pipeline_steps with an integer id while
\* cancel requests arrive; either pipeline class may be the deployed one.
StepsRows ==
    {[NewTeaser([stem |-> "a", ext |-> ".pdf"], st)
        EXCEPT !.extracted_text = x, !.entities = e] :
        st \in {PENDING, PROCESSING}, x \in ExtractedTexts, e \in {None, "ents"}}

InitSteps ==
    /\ \E row \in StepsRows :
          teasers = [i \in TeaserIds |-> IF i = 1 THEN row ELSE NoRow]
    /\ next_id = MaxTeasers + 1
    /\ tasks = [k \in TaskIds |-> NoTask]
    /\ running = 0
    /\ response = NoResponse
    /\ api_key \in BOOLEAN
    /\ pipeline \in {NESTED, FLAT}
    /\ cancelled = {}

NextSteps ==
    \/ \E t \in TeaserIds, b \in Selections : start_steps(t, b)
    \/ \E t \in TeaserIds : cancel_teaser_processing(t)
    \/ \E t \in TeaserIds, e \in BOOLEAN : get_teaser_report(t, e)
    \/ \E k \in TaskIds : steps_lookup(k)
    \/ \E k \in TaskIds, e \in {"raises", "{}", "ents"} : steps_entities(k, e)
    \/ \E k \in TaskIds : steps_init(k)
    \/ \E k \in TaskIds : steps_gate(k)
    \/ \E k \in TaskIds :
          \E r \in [Blocks -> {"absent"} \cup ResultTexts(k)] : llm_done(k, r)
    \/ \E k \in TaskIds : steps_merge(k)
    \/ \E k \in TaskIds : steps_commit(k)
    \/ \E k \in TaskIds : steps_store(k)
    \/ \E k \in TaskIds : steps_report(k)
    \/ \E k \in TaskIds, built \in BOOLEAN : report_done(k, built)
    \/ \E k \in TaskIds : steps_final(k)
    \/ \E k \in TaskIds : steps_except(k)
    \/ \E k \in TaskIds : task_exit(k)

SpecSteps == InitSteps /\ [][NextSteps]_vars

\* the parser harness: one run of _run_pipeline_steps on a teaser that has
\* text and entities, with credentials; the request ends with any outcome
\* and any response
InitParse ==
    /\ teasers = [i \in TeaserIds |->
                    IF i = 1
                    THEN [NewTeaser([stem |-> "a", ext |-> ".pdf"], PROCESSING)
                            EXCEPT !.extracted_text = "text", !.entities = "ents"]
                    ELSE NoRow]
    /\ next_id = MaxTeasers + 1
    /\ tasks = [k \in TaskIds |-> NoTask]
    /\ running = 0
    /\ response = NoResponse
    /\ api_key = TRUE
    /\ pipeline \in {NESTED, FLAT}
    /\ cancelled = {}

\* the harness starts its one run
parse_start(selected_blocks) ==
    /\ FreeSlots = TaskIds
    /\ start_steps(1, selected_blocks)

NextParse ==
    \/ \E b \in Selections : parse_start(b)
    \/ \E k \in TaskIds : steps_lookup(k)
    \/ \E k \in TaskIds : steps_entities(k, "{}")
    \/ \E k \in TaskIds : steps_init(k)
    \/ \E k \in TaskIds : steps_gate(k)
    \/ \E k \in TaskIds : llm_response(k)
    \/ \E k \in TaskIds : steps_merge(k)
    \/ \E k \in TaskIds : steps_commit(k)
    \/ \E k \in TaskIds : steps_store(k)
    \/ \E k \in TaskIds : steps_report(k)
    \/ \E k \in TaskIds, built \in BOOLEAN : report_done(k, built)
    \/ \E k \in TaskIds : steps_final(k)
    \/ \E k \in TaskIds : task_exit(k)

SpecParse == InitParse /\ [][NextParse]_vars

\* the shape harness: one run on a teaser whose stored analysis may hold a
\* string at the first key of a block's path
ShapeRows ==
    {[NewTeaser([stem |-> "a", ext |-> ".pdf"], PROCESSING)
        EXCEPT !.extracted_text = "text", !.entities = "ents", !.gpt_analysis = a] :
        a \in [Blocks -> {"{}", "old", Shadowed}]}

InitShape ==
    /\ \E row \in ShapeRows :
          teasers = [i \in TeaserIds |-> IF i = 1 THEN row ELSE NoRow]
    /\ next_id = MaxTeasers + 1
    /\ tasks = [k \in TaskIds |-> NoTask]
    /\ running = 0
    /\ response = NoResponse
    /\ api_key = TRUE
    /\ pipeline \in {NESTED, FLAT}
    /\ cancelled = {}

\* the harness starts its one run
shape_start(selected_blocks) ==
    /\ FreeSlots = TaskIds
    /\ start_steps(1, selected_blocks)

NextShape ==
    \/ \E b \in Selections : shape_start(b)
    \/ \E k \in TaskIds : steps_lookup(k)
    \/ \E k \in TaskIds : steps_entities(k, "{}")
    \/ \E k \in TaskIds : steps_init(k)
    \/ \E k \in TaskIds : steps_gate(k)
    \/ \E k \in TaskIds :
          \E r \in [Blocks -> {"absent"} \cup ResultTexts(k)] : llm_done(k, r)
    \/ \E k \in TaskIds : steps_merge(k)
    \/ \E k \in TaskIds : steps_commit(k)
    \/ \E k \in TaskIds : steps_store(k)
    \/ \E k \in TaskIds : steps_report(k)
    \/ \E k \in TaskIds, built \in BOOLEAN : report_done(k, built)
    \/ \E k \in TaskIds : steps_final(k)
    \/ \E k \in TaskIds : task_exit(k)

SpecShape == InitShape /\ [][NextShape]_vars

(* ================== the taxonomy of the nested pipeline ================ *)
\* the ids of self.building_blocks (teaser_pipeline.py 31-112)
RegistryIds ==
    {"teaser_summary", "company_profile", "customer_demand",
     "industry_landscape", "commercial_strategy", "talent_development",
     "market_growth", "breadth_analysis", "forces_analysis",
     "moat_identification", "value_creation", "ownership_structure",
     "related_party", "share_repurchases", "dividends", "risk", "synergies",
     "investment_criteria", "exit_perspective", "graveyard"}

\* section_mapping: the path of keys under which a block's result is stored
\* (teaser_pipeline.py 187-216)
section_mapping ==
       ("teaser_summary" :> <<"Teaser Summary", "Bias conscious">>)
    @@ ("company_profile" :> <<"Outside-In View", "Core Status Quo", "Company Profile">>)
    @@ ("customer_demand" :> <<"Outside-In View", "Core Status Quo", "Customer & Demand Analysis">>)
    @@ ("industry_landscape" :> <<"Outside-In View", "Core Status Quo", "Industry & Competitive Landscape">>)
    @@ ("commercial_strategy" :> <<"Outside-In View", "Core Status Quo", "Commercial Strategy">>)
    @@ ("talent_development" :> <<"Outside-In View", "Core Status Quo", "Talent Development">>)
    @@ ("market_growth" :> <<"Outside-In View", "Future", "Market Growth and Trends">>)
    @@ ("breadth_analysis" :> <<"Outside-In View", "Future", "Breadth Analysis">>)
    @@ ("forces_analysis" :> <<"Outside-In View", "Future", "Forces Analysis">>)
    @@ ("moat_identification" :> <<"Outside-In View", "Future", "Moat Identification">>)
    @@ ("value_creation" :> <<"Outside-In View", "Future", "Key Value Creation Drivers & Risks">>)
    @@ ("ownership_structure" :> <<"Outside-In View", "Shareholder Friendliness", "Compensation & Ownership Structure">>)
    @@ ("related_party" :> <<"Outside-In View", "Shareholder Friendliness", "Related-party transactions">>)
    @@ ("share_repurchases" :> <<"Outside-In View", "Shareholder Friendliness", "Share repurchases">>)
    @@ ("dividends" :> <<"Outside-In View", "Shareholder Friendliness", "Dividends">>)
    @@ ("risk" :> <<"Context Basis", "Risk">>)
    @@ ("synergies" :> <<"Context Basis", "Synergies">>)
    @@ ("investment_criteria" :> <<"Context Basis", "Investment Criteria">>)
    @@ ("exit_perspective" :> <<"Context Basis", "Exit perspective">>)
    @@ ("graveyard" :> <<"Context Basis", "Graveyard">>)

\* the paths of the empty mappings in the structure a teaser without an
\* analysis is given (teaser_pipeline.py 143-176)
SkeletonLeaves ==
    {<<"Teaser Summary", "Bias conscious">>,
     <<"Outside-In View", "Core Status Quo", "Company Profile">>,
     <<"Outside-In View", "Core Status Quo", "Customer & Demand Analysis">>,
     <<"Outside-In View", "Core Status Quo", "Industry & Competitive Landscape">>,
     <<"Outside-In View", "Core Status Quo", "Commercial Strategy">>,
     <<"Outside-In View", "Core Status Quo", "Talent Development">>,
     <<"Outside-In View", "Future", "Market Growth and Trends">>,
     <<"Outside-In View", "Future", "Breadth Analysis">>,
     <<"Outside-In View", "Future", "Forces Analysis">>,
     <<"Outside-In View", "Future", "Moat Identification">>,
     <<"Outside-In View", "Future", "Key Value Creation Drivers & Risks">>,
     <<"Outside-In View", "Shareholder Friendliness", "Compensation & Ownership Structure">>,
     <<"Outside-In View", "Shareholder Friendliness", "Related-party transactions">>,
     <<"Outside-In View", "Shareholder Friendliness", "Share repurchases">>,
     <<"Outside-In View", "Shareholder Friendliness", "Dividends">>,
     <<"Context Basis", "Risk">>,
     <<"Context Basis", "Synergies">>,
     <<"Context Basis", "Investment Criteria">>,
     <<"Context Basis", "Exit perspective">>,
     <<"Context Basis", "Graveyard">>}

\* A tree of mappings is the function from the paths of its leaves to what
\* is there: the empty mapping or a string.
EmptyMap == << >>
IsPrefix(p, q) == Len(p) <= Len(q) /\ SubSeq(q, 1, Len(p)) = p
SkeletonTree == [p \in SkeletonLeaves |-> EmptyMap]
\* the text of the n-th analysis of block b
SectionText(b, n) == <<b, n>>

\* isinstance(current, dict) for the node at path q
IsDict(tree, q) ==
    \/ q = << >>
    \/ \E p \in DOMAIN tree : IsPrefix(q, p) /\ (p = q => tree[p] = EmptyMap)
\* key in current, for the mapping at path q
HasKey(tree, q, key) == \E p \in DOMAIN tree : IsPrefix(Append(q, key), p)
\* current[key] = value at path p: what was below p is gone, and a mapping
\* above p is no longer empty
SetAt(tree, p, value) ==
    [d \in {e \in DOMAIN tree : ~IsPrefix(p, e) /\ ~IsPrefix(e, p)} \cup {p} |->
        IF d = p THEN value ELSE tree[d]]

\* the walk along section_path from its i-th key on: every key but the last
\* is created as an empty mapping when absent and descended into, which
\* raises TypeError on a string; at the last key the result is stored if the
\* parent is a mapping and dropped with a warning otherwise
\* (teaser_pipeline.py 237-249)
RECURSIVE store_result(_, _, _, _)
store_result(tree, section_path, i, result) ==
    LET q == SubSeq(section_path, 1, i - 1)
        key == section_path[i]
    IN IF i < Len(section_path)
       THEN IF ~IsDict(tree, q)
            THEN [tree |-> tree, raised |-> "TypeError"]
            ELSE store_result(IF HasKey(tree, q, key) THEN tree
                              ELSE SetAt(tree, Append(q, key), EmptyMap),
                              section_path, i + 1, result)
       ELSE IF IsDict(tree, q)
            THEN [tree |-> SetAt(tree, section_path, result), raised |-> None]
            ELSE [tree |-> tree, raised |-> None]

\* number of leaves that hold a text in the runs of the taxonomy harness
MaxMerged == 2
Populated(tree) == {p \in DOMAIN tree : tree[p] # EmptyMap}

\* variant of merge_block: the result is stored one key above the end of
\* the block's path
merge_block_at_parent(k, block_id, n) ==
    /\ running = k
    /\ tasks[k].pc = "merge_block"
    /\ LET t == tasks[k]
           section_path == SubSeq(section_mapping[block_id], 1,
                                  Len(section_mapping[block_id]) - 1)
           stored == store_result(t.analysis, section_path, 1,
                                  SectionText(block_id, n))
       IN /\ Cardinality(Populated(stored.tree)) <= MaxMerged
          /\ SetTask(k, [t EXCEPT !.analysis = stored.tree,
                                  !.raised = stored.raised,
                                  !.stages = @ \cup {"merge"},
                                  !.pc = IF stored.raised = None
                                         THEN "merge_block" ELSE "done"])
    /\ UNCHANGED <<teasers, next_id, running, response, env, cancelled>>

\* one turn of the merge loop on the whole taxonomy: the non-empty result of
\* a registered block is stored along the block's path in the loaded
\* analysis; a block without a path is skipped (teaser_pipeline.py 232-249)
merge_block(k, block_id, n) ==
    /\ running = k
    /\ tasks[k].pc = "merge_block"
    /\ LET t == tasks[k]
           stored == IF block_id \in DOMAIN section_mapping
                     THEN store_result(t.analysis, section_mapping[block_id], 1,
                                       SectionText(block_id, n))
                     ELSE [tree |-> t.analysis, raised |-> None]
       IN /\ Cardinality(Populated(stored.tree)) <= MaxMerged
          /\ SetTask(k, [t EXCEPT !.analysis = stored.tree,
                                  !.raised = stored.raised,
                                  !.stages = @ \cup {"merge"},
                                  !.pc = IF stored.raised = None
                                         THEN "merge_block" ELSE "done"])
    /\ UNCHANGED <<teasers, next_id, running, response, env, cancelled>>

\* the taxonomy harness: a run of the nested pipeline on a teaser without an
\* analysis stands in its merge loop with the skeleton loaded; results of
\* any registered blocks arrive in any order
InitTaxonomy ==
    /\ teasers = [i \in TeaserIds |->
                    IF i = 1
                    THEN [NewTeaser([stem |-> "a", ext |-> ".pdf"], PROCESSING)
                            EXCEPT !.extracted_text = "text", !.entities = "ents"]
                    ELSE NoRow]
    /\ next_id = MaxTeasers + 1
    /\ tasks = [k \in TaskIds |->
                  IF k = 1
                  THEN [NoTask EXCEPT !.kind = "steps", !.pc = "merge_block",
                                      !.teaser_id = 1, !.arg = IntArg(1),
                                      !.analysis = SkeletonTree, !.dirty = TRUE]
                  ELSE NoTask]
    /\ running = 1
    /\ response = NoResponse
    /\ api_key = TRUE
    /\ pipeline = NESTED
    /\ cancelled = {}

NextTaxonomy ==
    \E k \in TaskIds, b \in RegistryIds, n \in 1..2 : merge_block(k, b, n)

SpecTaxonomy == InitTaxonomy /\ [][NextTaxonomy]_vars

(* ============================ properties ============================== *)
\* the controller runs that have returned and not yet left the event loop
Returned(k) == tasks[k].kind = "steps" /\ tasks[k].pc = "done"
StepsRow(k) == teasers[tasks[k].arg.id]

\* C1: a process request for a teaser whose status is PROCESSING answers
\* 200, schedules no run and leaves every row, that teaser's status,
\* analysis, entities and report_path included, as it was.
C1_ProcessWhileProcessing ==
    [][\A t \in TeaserIds, b \in Selections :
          (Found(teasers, t) /\ teasers[t].status = PROCESSING /\ process_teaser(t, b))
          => /\ response' = [op |-> "process", code |-> 200]
             /\ tasks' = tasks
             /\ teasers' = teasers]_vars

\* a process request was answered 200 for a PROCESSING teaser whose only run
\* is the one its upload scheduled
C1_Witness ==
    /\ response = [op |-> "process", code |-> 200]
    /\ \A k \in TaskIds : tasks[k].kind \in {"none", "process_pdf"}
    /\ \E t \in TeaserIds : Found(teasers, t) /\ teasers[t].status = PROCESSING

\* C2: at any time at most one run is scheduled or running for a teaser id.
C2_AtMostOneRun ==
    \A t \in TeaserIds : Cardinality(InFlight(t)) <= 1

\* C3: a cancel request for a PROCESSING teaser is answered 200 and changes
\* nothing but that teaser's status, which becomes ERROR; for a PENDING,
\* COMPLETED or ERROR teaser it is answered 400 and changes no row.
C3_CancelOnlyFromProcessing ==
    [][\A t \in TeaserIds :
          (Found(teasers, t) /\ cancel_teaser_processing(t))
          => IF teasers[t].status = PROCESSING
             THEN /\ response' = [op |-> "cancel", code |-> 200]
                  /\ teasers' = [teasers EXCEPT ![t].status = ERROR]
             ELSE /\ response' = [op |-> "cancel", code |-> 400]
                  /\ teasers' = teasers]_vars

\* a cancel was accepted while runs were in flight and a later cancel of the
\* teaser, by then COMPLETED, was rejected
C3_Witness ==
    /\ response = [op |-> "cancel", code |-> 400]
    /\ cancelled # {}
    /\ teasers[1].status = COMPLETED

\* C4: a run that was in flight when its teaser was cancelled is still there
\* afterwards, and when its renderer has returned a path it has gone through
\* its last step as any run does: it returned True and the row carries its
\* path with status COMPLETED, not the ERROR the cancel had set.
C4_CancelDoesNotStopRun ==
    \A k \in cancelled :
        /\ Live(k)
        /\ (Returned(k) /\ tasks[k].report # NoPath)
           => /\ tasks[k].result = "True"
              /\ "completed" \in tasks[k].stages
              /\ StepsRow(k).status = COMPLETED
              /\ StepsRow(k).report_path = tasks[k].report

\* a cancelled run has returned and its teaser is COMPLETED
C4_Witness ==
    \E k \in cancelled :
        /\ Returned(k)
        /\ "llm" \in tasks[k].stages
        /\ StepsRow(k).status = COMPLETED

C6_StartedRunEndsTerminal ==
    \A k \in TaskIds :
        (tasks[k].kind \in {"process", "process_pdf"} /\ tasks[k].pc = "done")
        => teasers[tasks[k].teaser_id].status \in {COMPLETED, ERROR}

\* C7: the last step of a run whose renderer returned no path sets the status
\* to ERROR, returns False without going through the COMPLETED transition, and
\* leaves report_path as it was.
C7_NoPathEndsInError ==
    [][\A k \in TaskIds :
          (tasks[k].kind = "steps" /\ tasks[k].report = NoPath /\ steps_final(k))
          => /\ StepsRow(k)'.status = ERROR
             /\ StepsRow(k)'.report_path = StepsRow(k).report_path
             /\ tasks'[k].result = "False"
             /\ tasks'[k].pc = "done"
             /\ "completed" \notin tasks'[k].stages]_vars

\* a run has invoked the renderer, got no path and returned False; the
\* teaser is ERROR without a report_path
C7_Witness ==
    \E k \in TaskIds :
        /\ Returned(k)
        /\ "report" \in tasks[k].stages
        /\ tasks[k].raised = None
        /\ tasks[k].report = NoPath
        /\ tasks[k].result = "False"
        /\ StepsRow(k).status = ERROR
        /\ StepsRow(k).report_path = NoPath

\* C8: the last step of a run whose renderer returned a path writes that path
\* to report_path and COMPLETED to the status in one commit, and the run
\* returns True.
C8_PathEndsInCompleted ==
    [][\A k \in TaskIds :
          (tasks[k].kind = "steps" /\ tasks[k].report # NoPath /\ steps_final(k))
          => /\ StepsRow(k)'.report_path = tasks[k].report
             /\ StepsRow(k)'.status = COMPLETED
             /\ tasks'[k].result = "True"
             /\ tasks'[k].pc = "done"]_vars

\* a run has returned True and the row carries its path with COMPLETED
C8_Witness ==
    \E k \in TaskIds :
        /\ Returned(k)
        /\ tasks[k].result = "True"
        /\ tasks[k].report = ReportPath(tasks[k].arg.id)
        /\ StepsRow(k).report_path = tasks[k].report
        /\ StepsRow(k).status = COMPLETED

\* the teaser of run k exists and has no text, or the credentials are absent
AnalysisSkipped(k) ==
    /\ tasks[k].kind = "steps"
    /\ Found(teasers, tasks[k].teaser_id)
    /\ ~Truthy(StepsRow(k).extracted_text) \/ ~api_key

\* C9: a run for a teaser without text, or without credentials, never issues
\* the LLM request; unless an exception ended it, it has invoked the renderer
\* by the time it returns, and it has returned True with the teaser COMPLETED
\* when the renderer returned a path.
C9_SkippedAnalysisStillReports ==
    \A k \in TaskIds :
        AnalysisSkipped(k)
        => /\ "llm" \notin tasks[k].stages
           /\ "merge" \notin tasks[k].stages
           /\ (Returned(k) /\ tasks[k].raised = None)
              => /\ "report" \in tasks[k].stages
                 /\ tasks[k].report # NoPath
                    => tasks[k].result = "True" /\ StepsRow(k).status = COMPLETED

\* with text but without credentials a run has returned True: no LLM
\* request, the renderer invoked, the teaser COMPLETED
C9_Witness ==
    \E k \in TaskIds :
        /\ AnalysisSkipped(k)
        /\ Truthy(StepsRow(k).extracted_text)
        /\ Returned(k)
        /\ "report" \in tasks[k].stages
        /\ tasks[k].result = "True"
        /\ StepsRow(k).status = COMPLETED

\* C10: a run that an exception ended has returned False with the teaser
\* ERROR, and has executed none of the stages after the failing one: no LLM
\* request, no merge, no report generation, no COMPLETED transition.
C10_ExceptionStopsRun ==
    \A k \in TaskIds :
        (Returned(k) /\ tasks[k].raised # None)
        => /\ StepsRow(k).status = ERROR
           /\ tasks[k].result = "False"
           /\ tasks[k].stages \cap {"llm", "merge", "report", "completed"} = {}

\* entity tagging raised in a run with credentials; the run has returned
C10_Witness ==
    \E k \in TaskIds :
        /\ Returned(k)
        /\ tasks[k].raised = "Exception"
        /\ "entities" \in tasks[k].stages
        /\ api_key
        /\ StepsRow(k).status = ERROR

\* C11: a process request for an id that is no row of the table is
\* answered 404, schedules no run and changes no row.
C11_UnknownIdNotFound ==
    [][\A t \in TeaserIds, b \in Selections :
          (~Found(teasers, t) /\ process_teaser(t, b))
          => /\ response' = [op |-> "process", code |-> 404]
             /\ teasers' = teasers
             /\ tasks' = tasks]_vars

\* a process request was answered 404 while a teaser with another id exists
C11_Witness ==
    /\ response = [op |-> "process", code |-> 404]
    /\ \E t \in TeaserIds : Found(teasers, t)
    /\ \E t \in TeaserIds : ~Found(teasers, t)

\* C11, the controller: a run for an id that is no row has returned False
\* without executing a stage, and no row was touched on its account.
C11_ControllerNotFound ==
    \A k \in TaskIds :
        (tasks[k].kind = "steps" /\ ~Found(teasers, tasks[k].teaser_id))
        => /\ tasks[k].stages = {}
           /\ tasks[k].pc \in {"steps_lookup", "done"}
           /\ tasks[k].pc = "done" => tasks[k].result = "False"

\* v holds, in the order of s, exactly the entries of s that are registry ids
IsFilterOf(v, s) ==
    \E f \in [1..Len(v) -> 1..Len(s)] :
        /\ \A i \in 1..Len(v) : v[i] = s[f[i]]
        /\ \A i, j \in 1..Len(v) : i < j => f[i] < f[j]
        /\ \A j \in 1..Len(s) : s[j] \in Blocks => \E i \in 1..Len(v) : f[i] = j

\* C12: the blocks a run sends to analysis are the whole registry when the
\* selection is empty, and otherwise the requested ids that are in the
\* registry, in the requested order; they are registry ids in every case, and
\* a selection holding an unknown id raises nothing.
C12_SelectionFiltersRegistry ==
    \A k \in TaskIds :
        /\ ("llm" \in tasks[k].stages)
           => /\ Range(tasks[k].valid) \subseteq Blocks
              /\ tasks[k].valid # << >>
              /\ IF tasks[k].selected = << >>
                 THEN tasks[k].valid = AllBlocks
                 ELSE IsFilterOf(tasks[k].valid, tasks[k].selected)
        /\ (tasks[k].kind = "steps" /\ tasks[k].raised # None)
           => "entities" \in tasks[k].stages

\* a run was given a registry id and an unknown id and has sent the request
\* for the registry id alone; another was given two ids in an order of its own
C12_Witness ==
    /\ \E k \in TaskIds : /\ tasks[k].selected = <<"teaser_summary", UnknownBlock>>
                          /\ tasks[k].valid = <<"teaser_summary">>
                          /\ "llm" \in tasks[k].stages
    /\ \E k \in TaskIds : /\ tasks[k].selected = <<"risk", "teaser_summary">>
                          /\ tasks[k].valid = <<"risk", "teaser_summary">>

\* the request of run k has ended
Answered(k) == tasks[k].kind = "steps" /\ tasks[k].outcome # None
\* the request of run k brought nothing for block b
Unbuilt(k, b) ==
    /\ b \in Range(tasks[k].valid)
    /\ tasks[k].outcome # "ok" \/ tasks[k].results[b] = Missing

\* C13: whatever goes wrong while the blocks are built (network error,
\* non-success status, malformed body, a section without marker), the run
\* raises nothing: the blocks concerned are recorded as absent, and the run
\* returns only after the report stage, COMPLETED if a report was written.
C13_BlockFailuresDoNotAbort ==
    \A k \in TaskIds :
        Answered(k) =>
            /\ tasks[k].raised = None
            /\ tasks[k].pc # "steps_except"
            /\ \A b \in Blocks : Unbuilt(k, b) => tasks[k].batch[b] = "absent"
            /\ Returned(k) =>
                  /\ "report" \in tasks[k].stages
                  /\ tasks[k].report # NoPath =>
                        /\ tasks[k].result = "True"
                        /\ StepsRow(k).status = COMPLETED
C13_Witness ==
    \E k \in TaskIds :
        /\ Returned(k)
        /\ tasks[k].outcome = "ClientError"
        /\ \A b \in Range(tasks[k].valid) : tasks[k].batch[b] = "absent"
        /\ StepsRow(k).status = COMPLETED

\* C14: a run sends at most one request to the model service, and exactly
\* one has gone out when the request has ended, however it ended.
C14_AtMostOneRequest ==
    \A k \in TaskIds :
        /\ tasks[k].nreq <= 1
        /\ Answered(k) => tasks[k].nreq = 1
C14_Witness ==
    \E k \in TaskIds :
        /\ Returned(k)
        /\ tasks[k].outcome = "status_500"
        /\ tasks[k].nreq = 1

\* C15: a request answered with status 429 makes the client return a retry
\* signal with a wait, that is, something other than the empty results it
\* returns for a request that failed.
C15_RateLimitSignalsRetry ==
    \A k \in TaskIds :
        (Answered(k) /\ tasks[k].outcome = "status_429")
        => tasks[k].results # [b \in Blocks |-> Missing]

\* texts without any piece of a marker, as the content of a section
Contents ==
    LET words == {<<WS, "x", WS>>, <<"y">>}
        one == {<< >>} \cup words
        two == one \cup {t \o c : t \in one, c \in words}
    IN two \cup {t \o c : t \in two, c \in words}
\* the response that gives, in request order, each requested section its
\* primary marker followed by its content
RECURSIVE Marked(_, _, _)
Marked(blocks_to_process, content, i) ==
    IF i > Len(blocks_to_process) THEN << >>
    ELSE section_marker(blocks_to_process[i]) \o content[i]
         \o Marked(blocks_to_process, content, i + 1)
\* r is c without the blanks at its two ends
IsTrimOf(r, c) ==
    IF r = << >> THEN \A i \in 1..Len(c) : c[i] = WS
    ELSE /\ r[1] # WS
         /\ r[Len(r)] # WS
         /\ \E i \in 1..(Len(c) - Len(r) + 1) :
               /\ SubSeq(c, i, i + Len(r) - 1) = r
               /\ \A j \in 1..Len(c) : (j < i \/ j > i + Len(r) - 1) => c[j] = WS

\* C16: when the response holds, in request order, one primary marker per
\* requested section followed by its content, the parser returns one entry
\* per requested block and no other, each the trimmed content of its section.
C16_MarkedSectionsAllParsed ==
    \A k \in TaskIds :
        (/\ Answered(k)
         /\ tasks[k].outcome = "ok"
         /\ Find(tasks[k].full_response, section_marker(tasks[k].valid[1]), 1) = 1) =>
            \A content \in [1..Len(tasks[k].valid) -> Contents] :
                tasks[k].full_response = Marked(tasks[k].valid, content, 1) =>
                    \A b \in Blocks :
                        IF b \in Range(tasks[k].valid)
                        THEN /\ tasks[k].results[b] # Missing
                             /\ IsTrimOf(tasks[k].results[b],
                                         content[IndexOf(tasks[k].valid, b)])
                        ELSE tasks[k].results[b] = Missing
C16_Witness ==
    \E k \in TaskIds :
        /\ Answered(k)
        /\ tasks[k].valid = <<"risk", "teaser_summary">>
        /\ tasks[k].full_response =
              section_marker("risk") \o <<WS, "x", WS>>
              \o section_marker("teaser_summary") \o <<"y">>
        /\ tasks[k].results = [b \in Blocks |-> IF b = "risk" THEN <<"x">> ELSE <<"y">>]

\* the response of run k holds no marker of any form for the requested
\* block b
Unmarked(k, b) ==
    LET t == tasks[k]
        i == IndexOf(t.valid, b)
    IN /\ b \in Range(t.valid)
       /\ \A m \in {section_marker(b), alt_section_marker(b), mixed_case_marker(b),
                    colon_marker(b), numbered_marker(i, b)} :
             \A p \in 1..(Len(t.full_response) - Len(m) + 1) :
                 SubSeq(t.full_response, p, p + Len(m) - 1) # m

\* C17: with the marker-search parser, a requested section has an entry
\* exactly if the response holds a marker for it: a response that lacks the
\* marker of one of M requested sections yields the M-1 other entries.  The
\* run still goes through the report stage, and the leaf of the missing block
\* is as the skeleton left it.
C17_UnmarkedSectionSkipped ==
    \A k \in TaskIds :
        (Answered(k) /\ tasks[k].outcome = "ok" /\ pipeline = NESTED) =>
            /\ \A b \in Range(tasks[k].valid) :
                  Unmarked(k, b) <=> tasks[k].results[b] = Missing
            /\ \A b \in Range(tasks[k].valid) :
                  Unmarked(k, b) =>
                     /\ tasks[k].raised = None
                     /\ Returned(k) =>
                           /\ "report" \in tasks[k].stages
                           /\ StepsRow(k).gpt_analysis[b] = Skeleton[b]
                           /\ StepsRow(k).status \in {COMPLETED, ERROR}
                           /\ tasks[k].report # NoPath => StepsRow(k).status = COMPLETED
C17_Witness ==
    \E k \in TaskIds :
        /\ Returned(k)
        /\ pipeline = NESTED
        /\ tasks[k].valid = AllBlocks
        /\ tasks[k].full_response = section_marker("risk") \o <<"y">>
        /\ Unmarked(k, "teaser_summary")
        /\ tasks[k].results["teaser_summary"] = Missing
        /\ tasks[k].results["risk"] = <<"y">>
        /\ StepsRow(k).gpt_analysis["teaser_summary"] = Skeleton["teaser_summary"]
        /\ StepsRow(k).gpt_analysis["risk"] = ToString(k)
        /\ StepsRow(k).status = COMPLETED

\* every requested section has its primary marker somewhere in the response
AllMarked(k) ==
    \A b \in Range(tasks[k].valid) :
        Find(tasks[k].full_response, section_marker(b), 1) # 0

\* C18: when each requested marker occurs in the response, in whatever
\* order, no section the marker-search parser extracts holds the marker of
\* another requested section.
C18_SectionsDoNotOverlap ==
    \A k \in TaskIds :
        (Answered(k) /\ tasks[k].outcome = "ok" /\ pipeline = NESTED /\ AllMarked(k)) =>
            \A b, c \in Range(tasks[k].valid) :
                b # c => Find(tasks[k].results[b], section_marker(c), 1) = 0

\* marker m occurs in text at position p
Occurs(text, m, p) ==
    /\ p \in 1..(Len(text) - Len(m) + 1)
    /\ SubSeq(text, p, p + Len(m) - 1) = m
\* with the marker forms tried in the order given, the entry of block b in
\* run k is cut from the response right after the first occurrence of the
\* first form that occurs at all
LocatedBy(k, b, forms) ==
    LET text == tasks[k].full_response
    IN \A j \in 1..Len(forms) : \A p \in 1..Len(text) :
          (/\ Occurs(text, forms[j], p)
           /\ \A q \in 1..(p - 1) : ~Occurs(text, forms[j], q)
           /\ \A h \in 1..(j - 1) : \A q \in 1..Len(text) : ~Occurs(text, forms[h], q))
          => \E e \in (p + Len(forms[j]) - 1)..Len(text) :
                IsTrimOf(tasks[k].results[b],
                         SubSeq(text, p + Len(forms[j]), e))

C20_SecondMergeOverwrites ==
    [][\A k \in TaskIds :
          (/\ running = k
           /\ tasks[k].pc = "steps_merge"
           /\ steps_merge(k)
           /\ LET b == tasks[k].valid[tasks[k].idx]
              IN /\ tasks[k].batch[b] # "absent"
                 /\ Truthy(tasks[k].batch[b])
                 /\ Truthy(StepsRow(k).gpt_analysis[b])
                 /\ StepsRow(k).gpt_analysis[b] # tasks[k].batch[b])
          => LET b == tasks[k].valid[tasks[k].idx]
             IN teasers'[tasks[k].arg.id].gpt_analysis[b] = tasks[k].batch[b]]_vars

\* C21: a merge that finds a string where the path of the block needs a
\* mapping fails: the run leaves the merge by the exception route.
C21_ShapeConflictRaises ==
    [][\A k \in TaskIds :
          (/\ running = k
           /\ tasks[k].pc = "steps_merge"
           /\ steps_merge(k)
           /\ LET b == tasks[k].valid[tasks[k].idx]
              IN /\ tasks[k].batch[b] # "absent"
                 /\ Truthy(tasks[k].batch[b])
                 /\ tasks[k].analysis[b] = Shadowed)
          => tasks'[k].pc = "steps_except"]_vars
\* what happens instead: the text of the run is at no leaf, nothing was
\* raised and the run ended COMPLETED
C21_SilentDrop ==
    \E k \in TaskIds :
        /\ Returned(k)
        /\ pipeline = NESTED
        /\ tasks[k].batch["risk"] = ToString(k)
        /\ StepsRow(k).gpt_analysis["risk"] = Shadowed
        /\ tasks[k].raised = None
        /\ StepsRow(k).status = COMPLETED

\* C22: while a run of the nested pipeline is between two blocks or has done
\* its last merge, with no other run alive, the row holds the text of every
\* block merged so far.
C22_MergedBlocksPersisted ==
    \A k \in TaskIds :
        (/\ tasks[k].kind = "steps"
         /\ pipeline = NESTED
         /\ tasks[k].pc \in {"steps_merge", "steps_commit"}
         /\ \A o \in TaskIds \ {k} : ~Live(o)) =>
            \A j \in 1..(tasks[k].idx - 1) :
                LET b == tasks[k].valid[j]
                IN (tasks[k].batch[b] # "absent" /\ Truthy(tasks[k].batch[b]))
                   => StepsRow(k).gpt_analysis[b] = tasks[k].batch[b]

\* run k is at its entity stage and the teaser lacks entities and has text
EntitiesDue(k) ==
    /\ running = k
    /\ tasks[k].pc = "steps_entities"
    /\ ~Truthy(StepsRow(k).entities)
    /\ Truthy(StepsRow(k).extracted_text)

\* C23: the entities of a teaser change only in the entity stage of a run on
\* a teaser that has text and no entities, and that stage, unless the
\* extractor raises, persists what the extractor returned; in particular
\* entities that exist are left alone by every step, also by the steps of a
\* run that fails later.
C23_EntitiesOnlyWhenMissing ==
    [][/\ \A id \in TeaserIds :
             teasers'[id].entities # teasers[id].entities
             => \E k \in TaskIds : EntitiesDue(k) /\ tasks[k].arg.id = id
       /\ \A k \in TaskIds :
             (EntitiesDue(k) /\ tasks'[k].pc = "steps_init")
             => /\ "entities" \in tasks'[k].stages
                /\ teasers'[tasks[k].arg.id].entities \in {"{}", "ents"}
       /\ \A k \in TaskIds :
             (running = k /\ tasks[k].pc = "steps_entities" /\ ~EntitiesDue(k)
              /\ tasks'[k].pc # "steps_entities")
             => /\ "entities" \notin tasks'[k].stages
                /\ tasks'[k].pc = "steps_init"]_vars
\* a run that computed the entities and then failed: they are on the row
C23_Witness ==
    \E k \in TaskIds :
        /\ Returned(k)
        /\ "entities" \in tasks[k].stages
        /\ tasks[k].result = "False"
        /\ StepsRow(k).status = ERROR
        /\ StepsRow(k).entities = "ents"

\* C24: a step of a run, no other run being alive, removes no entry of the
\* stored analysis, and changes the entry of a block only if the block is
\* among the blocks the run processes.
C24_OtherLeavesKept ==
    [][\A k \in TaskIds :
          (/\ running = k
           /\ tasks[k].kind = "steps"
           /\ Found(teasers, tasks[k].teaser_id)
           /\ \A o \in TaskIds \ {k} : ~Live(o)) =>
              \A b \in Blocks :
                 LET old == teasers[tasks[k].teaser_id].gpt_analysis[b]
                     new == teasers'[tasks[k].teaser_id].gpt_analysis[b]
                 IN old \notin {None, "absent"} =>
                       /\ new \notin {None, "absent"}
                       /\ b \notin Range(tasks[k].valid) => new = old]_vars

\* C25: the token budget of the request a run sends is the same function of
\* the number of requested blocks whichever pipeline class sends it.
C25_OneBudgetFunction ==
    \A k \in TaskIds :
        (tasks[k].kind = "steps" /\ tasks[k].nreq = 1) =>
            \A p \in {NESTED, FLAT} :
                tasks[k].max_tokens = max_tokens(p, Len(tasks[k].valid))

\* C26: a report request is answered with the file only for a teaser that is
\* COMPLETED and has a report_path; for a teaser that is PENDING, PROCESSING
\* or ERROR, with or without the report_path of an earlier run, the answer
\* is 404.  The request changes nothing.
C26_ReportOnlyWhenCompleted ==
    [][\A t \in TeaserIds, e \in BOOLEAN :
          get_teaser_report(t, e) =>
             /\ response'.code = 200 =>
                   /\ Found(teasers, t)
                   /\ teasers[t].status = COMPLETED
                   /\ teasers[t].report_path # NoPath
             /\ (Found(teasers, t) /\ teasers[t].status \in {PENDING, PROCESSING, ERROR})
                   => response' = [op |-> "report", code |-> 404]
             /\ teasers' = teasers
             /\ tasks' = tasks]_vars
\* the report of an earlier run is refused after a later run has failed
C26_Witness ==
    /\ response = [op |-> "report", code |-> 404]
    /\ teasers[1].status = ERROR
    /\ teasers[1].report_path # NoPath

\* C27: a teaser whose status is COMPLETED has a report_path.
C27_CompletedHasReport ==
    \A id \in TeaserIds :
        (Found(teasers, id) /\ teasers[id].status = COMPLETED)
        => teasers[id].report_path # NoPath
\* a COMPLETED teaser while a later run on it is waiting for its response
C27_Witness ==
    \E k \in TaskIds :
        /\ tasks[k].kind = "steps"
        /\ tasks[k].pc = "await_llm"
        /\ StepsRow(k).status = COMPLETED
        /\ StepsRow(k).report_path = ReportPath(tasks[k].arg.id)

\* C28: a teaser whose status is ERROR has no report_path.
C28_ErrorHasNoReport ==
    \A id \in TeaserIds :
        (Found(teasers, id) /\ teasers[id].status = ERROR)
        => teasers[id].report_path = NoPath

\* task k runs Pipeline.process and returns with this step
ProcessReturns(k) ==
    /\ tasks[k].kind \in {"process", "process_pdf"}
    /\ tasks[k].ret = None
    /\ tasks'[k].ret # None

\* C29: when Pipeline.process returns true, the returning step committed
\* COMPLETED together with a report path; when it returns false, the teaser
\* was not found or the run has committed ERROR; it returns nothing else, and
\* never true with the teaser left in ERROR by the run.
C29_ProcessResultMatchesStatus ==
    [][\A k \in TaskIds :
          ProcessReturns(k) =>
             LET id == tasks[k].teaser_id
             IN /\ tasks'[k].ret \in {"True", "False"}
                /\ tasks'[k].ret = "True" <=>
                      /\ Found(teasers', id)
                      /\ teasers'[id].status = COMPLETED
                      /\ teasers'[id].report_path # NoPath
                /\ tasks'[k].ret = "False" <=>
                      \/ ~Found(teasers, id)
                      \/ teasers'[id].status = ERROR]_vars
\* a call that found its teaser and returned false with ERROR committed
C29_Witness ==
    \E k \in TaskIds :
        /\ tasks[k].kind \in {"process", "process_pdf"}
        /\ tasks[k].pc = "done"
        /\ tasks[k].ret = "False"
        /\ Found(teasers, tasks[k].teaser_id)
        /\ teasers[tasks[k].teaser_id].status = ERROR
\* in the application as wired no call of Pipeline.process returns true
C29_NeverTrue ==
    \A k \in TaskIds : tasks[k].ret # "True"

C31_UploadRunsOwnTeaser ==
    \A k \in TaskIds :
        (tasks[k].kind = "process_pdf" /\ tasks[k].teaser_id # 0) =>
            tasks[k].teaser_id = tasks[k].origin

\* run k was given a non-empty selection none of whose ids is registered
OnlyUnknown(k) ==
    /\ tasks[k].kind = "steps"
    /\ tasks[k].selected # << >>
    /\ \A i \in 1..Len(tasks[k].selected) : tasks[k].selected[i] \notin Blocks

\* C32: a run whose non-empty selection holds only unregistered ids issues
\* no LLM request, resolves to no block at all (it does not fall back to the
\* whole registry), and none of its steps gives a leaf of the stored analysis
\* another value than it had, except that a teaser without an analysis gets
\* the empty skeleton; if its teaser exists and no exception ended it, it has
\* invoked the renderer by the time it returns.
C32_UnknownSelectionAnalysesNothing ==
    [][\A k \in TaskIds :
          OnlyUnknown(k)' =>
             /\ tasks'[k].nreq = 0
             /\ tasks'[k].valid = << >>
             /\ {"llm", "merge"} \cap tasks'[k].stages = {}
             /\ (running = k /\ Found(teasers, tasks[k].teaser_id)) =>
                   \A b \in Blocks :
                      LET old == teasers[tasks[k].teaser_id].gpt_analysis[b]
                          new == teasers'[tasks[k].teaser_id].gpt_analysis[b]
                      IN new = old \/ (old = None /\ new = "{}")
             /\ (Returned(k)' /\ tasks'[k].raised = None
                    /\ Found(teasers', tasks'[k].teaser_id)) =>
                   "report" \in tasks'[k].stages]_vars
\* with text and credentials, a run with only unregistered ids has returned
\* after invoking the renderer, without a request
C32_Witness ==
    \E k \in TaskIds :
        /\ OnlyUnknown(k)
        /\ api_key
        /\ Truthy(StepsRow(k).extracted_text)
        /\ Returned(k)
        /\ tasks[k].nreq = 0
        /\ "report" \in tasks[k].stages
        /\ tasks[k].result = "True"

\* the parser of run k found the marker of block b and no content after it
EmptySection(k, b) ==
    /\ tasks[k].kind = "steps"
    /\ tasks[k].outcome = "ok"
    /\ b \in Range(tasks[k].valid)
    /\ tasks[k].results[b] = << >>

\* C33: in the nested pipeline a block whose parsed section text is empty is
\* treated like a failed block.  The teaser of the run had no analysis before
\* the run: the leaf of such a block never holds anything but the empty
\* placeholder of the skeleton, and every other leaf holds the placeholder or
\* the text of its own non-empty section.
C33_EmptySectionKeepsLeaf ==
    \A k \in TaskIds : \A b \in Blocks :
        (pipeline = NESTED /\ EmptySection(k, b)) =>
            /\ StepsRow(k).gpt_analysis[b] \in {None, "{}"}
            /\ \A o \in Blocks \ {b} :
                  \/ StepsRow(k).gpt_analysis[o] \in {None, "{}"}
                  \/ /\ tasks[k].results[o] \notin {Missing, << >>}
                     /\ StepsRow(k).gpt_analysis[o] = TextOf(k, tasks[k].results[o])
\* a run has returned whose response held an empty section for one block and
\* a text for the other: the text is stored, the empty block's leaf is the
\* placeholder
C33_Witness ==
    \E k \in TaskIds : \E b \in Blocks : \E o \in Blocks \ {b} :
        /\ pipeline = NESTED
        /\ EmptySection(k, b)
        /\ Returned(k)
        /\ StepsRow(k).gpt_analysis[b] = "{}"
        /\ StepsRow(k).gpt_analysis[o] = ToString(k)

\* the loaded analysis of the run of the taxonomy harness
LoadedTree == tasks[1].analysis

\* C34: every registered block has a path of 1 to 3 keys that ends at a leaf
\* of the skeleton; the paths of distinct blocks differ and none is a prefix
\* of another; and a merge raises nothing, keeps the shape of the tree, and
\* changes no leaf but the one of the block merged, which then holds that
\* block's text.
C34_PathsAreDisjointLeaves ==
    [][/\ \A b \in RegistryIds :
             /\ b \in DOMAIN section_mapping
             /\ Len(section_mapping[b]) \in 1..3
             /\ section_mapping[b] \in SkeletonLeaves
       /\ \A b, c \in RegistryIds :
             b # c => ~IsPrefix(section_mapping[b], section_mapping[c])
       /\ tasks'[1].raised = None
       /\ DOMAIN LoadedTree' = SkeletonLeaves
       /\ \E b \in RegistryIds :
             \A p \in SkeletonLeaves :
                LoadedTree'[p] # LoadedTree[p] =>
                   /\ p = section_mapping[b]
                   /\ LoadedTree'[p] \in {SectionText(b, 1), SectionText(b, 2)}]_vars
\* two blocks under the same mapping hold their texts, one of them from its
\* second merge
C34_Witness ==
    /\ DOMAIN LoadedTree = SkeletonLeaves
    /\ LoadedTree[section_mapping["risk"]] = SectionText("risk", 2)
    /\ LoadedTree[section_mapping["synergies"]] = SectionText("synergies", 1)

\* the positions of text at which the opening of a primary marker stands
MarkerStarts(text) ==
    {q \in 1..(Len(text) - 1) : text[q] = "---" /\ text[q + 1] = "SECTION: "}
\* text is made of correctly marked sections for the requested blocks in
\* request order: it begins with the first block's primary marker, holds as
\* many marker openings as blocks, and the i-th of them is the primary
\* marker of the i-th block, which begins after the marker before it has ended
WellMarked(text, blocks_to_process) ==
    LET starts == MarkerStarts(text)
        nth(i) == CHOOSE q \in starts : Cardinality({r \in starts : r < q}) = i - 1
    IN /\ blocks_to_process # << >>
       /\ Cardinality(starts) = Len(blocks_to_process)
       /\ 1 \in starts
       /\ \A i \in 1..Len(blocks_to_process) :
             /\ nth(i) + 3 <= Len(text)
             /\ SubSeq(text, nth(i), nth(i) + 3) = section_marker(blocks_to_process[i])
             /\ i > 1 => nth(i) >= nth(i - 1) + 4

\* C35: on a response made of correctly marked sections for the requested
\* blocks in request order, the marker-search parser and the split parser
\* return the same mapping, which is the one the run received.
C35_ParsersAgreeOnMarkedSections ==
    \A k \in TaskIds :
        (/\ Answered(k)
         /\ tasks[k].outcome = "ok"
         /\ WellMarked(tasks[k].full_response, tasks[k].valid)) =>
            /\ tasks[k].results = parse_sections_nested(tasks[k].full_response, tasks[k].valid)
            /\ tasks[k].results = parse_sections_flat(tasks[k].full_response, tasks[k].valid)
\* the split parser has answered a run with two marked sections, one of them
\* with blanks around its words
C35_Witness ==
    \E k \in TaskIds :
        /\ pipeline = FLAT
        /\ Answered(k)
        /\ tasks[k].valid = <<"risk", "teaser_summary">>
        /\ tasks[k].full_response =
              section_marker("risk") \o <<WS, "x", WS>>
              \o section_marker("teaser_summary") \o <<"y">>
        /\ WellMarked(tasks[k].full_response, tasks[k].valid)
        /\ tasks[k].results = [b \in Blocks |-> IF b = "risk" THEN <<"x">> ELSE <<"y">>]

\* the pieces of a response the split parser works on, and the header and
\* the content it takes from a piece
Pieces(full_response) == Tail(Split(full_response, <<"---", "SECTION: ">>))
PieceName(section_text) ==
    LET p == Find(section_text, <<"---">>, 1)
    IN Strip(RStripDashes(Strip(IF p = 0 THEN section_text
                                ELSE SubSeq(section_text, 1, p - 1))))
PieceContent(section_text) ==
    LET p == Find(section_text, <<"---">>, 1)
    IN IF p # 0 THEN Strip(SubSeq(section_text, p + 1, Len(section_text)))
       ELSE section_text

\* C36: in the split parser, a requested block whose own correctly named
\* section is present in the response has the content of such a section; a
\* header that only matches it by containment never replaces it.
C36_FuzzyNeverReplacesExact ==
    \A k \in TaskIds :
        (pipeline = FLAT /\ Answered(k) /\ tasks[k].outcome = "ok") =>
            LET pieces == Pieces(tasks[k].full_response)
            IN \A b \in Range(tasks[k].valid) :
                  LET own == {i \in 1..Len(pieces) :
                                 PieceName(pieces[i]) = <<BlockName[b]>>}
                  IN own # {} =>
                        \E i \in own : tasks[k].results[b] = PieceContent(pieces[i])

====
